---- MODULE Spec2Model ----
(***************************************************************************)
(* A model of the chatger terminal client: the connection manager         *)
(* (network/client.rs), the receiving task and its dispatch               *)
(* (network/mod.rs), the two-mode update function (tui/screens/login,     *)
(* tui/screens/chat) and the tick driver (tui/screens/mod.rs).            *)
(*                                                                         *)
(* Time is kept as the elapsed() of every timestamp, in seconds, saturated *)
(* one above the largest threshold it is compared with; update() or        *)
(* Instant::now() sets it to 0 and a tick of the clock adds one.           *)
(***************************************************************************)
EXTENDS Integers, Sequences, FiniteSets, TLC

(***************************************************************************)
(* Program constants.                                                      *)
(***************************************************************************)
ACK_ID_SEED == 100000
EVENT_BUS_CAPACITY == 10     \* mpsc::channel::<TuiEvent>(10)
TYPING_EXPIRY_SECS == 2
UNHEALTHY_SECS == 10
RECONNECT_QUIET_SECS == 15
RECONNECT_BACKOFF_SECS == 5
USER_TIME_UNTIL_IDLE == 60
MAX_MESSAGE_LENGTH == 16384
HEADER_LENGTH == 10
HISTORY_MESSAGES_BACK == 50

(***************************************************************************)
(* Bounds of the model.                                                    *)
(***************************************************************************)
MaxSends == 2        \* local messages sent in one ChatState
MaxServerId == 1     \* server-assigned message ids are 1..MaxServerId, and ACK_ID_SEED
MaxChannels == 2     \* channels the server announces
MaxInputLen == 1     \* characters the user types into one input line
MaxNameLen == 1      \* characters of the username and of the password of the form
MaxAddressLen == 65  \* characters of the server address of the form

None == "None"
\* Option<T>: Nothing, or Some(x)
Nothing == <<>>
Some(x) == <<x>>
IsSome(o) == o # <<>>
Unwrap(o) == o[1]

ChannelIds == 1..MaxChannels

Min(m, n) == IF m < n THEN m ELSE n

RECURSIVE SeqRange(_)
SeqRange(s) == IF s = <<>> THEN {} ELSE {Head(s)} \cup SeqRange(Tail(s))

(***************************************************************************)
(* network/client.rs: Client                                               *)
(***************************************************************************)
TransmitCap == RECONNECT_QUIET_SECS + 1
ReconnectCap == RECONNECT_BACKOFF_SECS + 1

\* Client::new. recv_handle holds the state of the task it refers to;
\* orphan_tasks counts receiving tasks still running that no handle refers to.
NewClient ==
    [write_stream |-> None,
     recv_handle |-> None,
     orphan_tasks |-> 0,
     time_since_last_transmit |-> TransmitCap,   \* InteractedTimeStamp::new(): epoch
     time_since_last_reconnect |-> ReconnectCap,
     connection_status |-> "Disconnected"]

DialOutcomes == {"ok", "refused", "invalid_input", "io_other", "tls_bad_name", "tls_handshake"}
TcpFailures == {"refused", "invalid_input", "io_other"}
TlsFailures == {"tls_bad_name", "tls_handshake"}

\* What recv_handle becomes when a new task is spawned over it.
Spawned(c) ==
    [c EXCEPT !.recv_handle = "running",
              !.orphan_tasks = IF c.recv_handle = "running" THEN @ + 1 ELSE @,
              !.write_stream = "Some",
              !.connection_status = "Connected"]

\* The outcome of a connect call: the client, the error ("none" for Ok), and
\* whether the network was dialed: "no", "free" (no writer held) or "held".
Connected(c, err, dialed) == [c |-> c, err |-> err, dialed |-> dialed]

connect_unguarded(c, addr, dial) ==
    LET dialed == IF c.write_stream # None THEN "held" ELSE "free"
    IN  IF dial \in TcpFailures THEN Connected(c, dial, dialed)
        ELSE IF addr.connection_type = "Raw" THEN Connected(Spawned(c), "none", dialed)
        ELSE IF ~addr.domain THEN Connected(c, "tls_requires_domain", dialed)
        ELSE IF dial \in TlsFailures THEN Connected(c, dial, dialed)
        ELSE Connected(Spawned(c), "none", dialed)

\* Client::connect. `dial` is what the network answers if it is dialed.
connect(c, addr, dial) ==
    IF c.write_stream # None THEN Connected(c, "already_connected", "no")
    ELSE IF dial \in TcpFailures THEN Connected(c, dial, "free")
    ELSE IF addr.connection_type = "Raw" THEN Connected(Spawned(c), "none", "free")
    ELSE IF ~addr.domain THEN Connected(c, "tls_requires_domain", "free")
    ELSE IF dial \in TlsFailures THEN Connected(c, dial, "free")
    ELSE Connected(Spawned(c), "none", "free")

\* Client::disconnect
disconnect(c) ==
    [c EXCEPT !.write_stream = None,
              !.recv_handle = IF @ = "running" THEN "aborted" ELSE @,
              !.connection_status = "Disconnected"]

\* A handler in progress: the client, the frames written so far, the number of
\* writes attempted, whether every call so far returned Ok, and what connect
\* did: whether it dialed and the error it returned.
Begin(c) ==
    [c |-> c, out |-> <<>>, n |-> 0, ok |-> TRUE, dialed |-> "no", err |-> "none",
     refused |-> <<>>]

send_stamps_first(r, frame, wfail) ==
    IF ~r.ok THEN r
    ELSE IF r.c.write_stream = None
    THEN [r EXCEPT !.ok = FALSE, !.refused = <<frame>>, !.c.time_since_last_transmit = 0]
    ELSE IF wfail = r.n + 1 THEN [r EXCEPT !.ok = FALSE, !.n = @ + 1]
    ELSE [r EXCEPT !.c.time_since_last_transmit = 0,
                   !.out = Append(@, frame),
                   !.n = @ + 1]

\* Client::get_stream + Client::send_message for one frame. The wfail-th write
\* of the handler meets an I/O error (0: none does). `refused` keeps the frame
\* of a call that found no writer.
send(r, frame, wfail) ==
    IF ~r.ok THEN r
    ELSE IF r.c.write_stream = None THEN [r EXCEPT !.ok = FALSE, !.refused = <<frame>>]
    ELSE IF wfail = r.n + 1 THEN [r EXCEPT !.ok = FALSE, !.n = @ + 1]
    ELSE [r EXCEPT !.c.time_since_last_transmit = 0,
                   !.out = Append(@, frame),
                   !.n = @ + 1]

Frame(type, a, b) == [type |-> type, a |-> a, b |-> b]

\* Client::reconnect
reconnect(c, addr, dial, wfail) ==
    LET c1 == [disconnect(c) EXCEPT !.connection_status = "Reconnecting"]
        con == connect(c1, addr, dial)
        r0 == [Begin(con.c) EXCEPT !.dialed = con.dialed, !.err = con.err]
    IN  IF con.err # "none" THEN [r0 EXCEPT !.ok = FALSE]
        ELSE LET r == send(r0, Frame("Login", 0, 0), wfail)
             IN  IF ~r.ok THEN r
                 ELSE [r EXCEPT !.c.time_since_last_reconnect = 0]

(***************************************************************************)
(* tui/chat.rs, tui/screens/chat/mod.rs: ChatState                         *)
(***************************************************************************)
TypingCap == TYPING_EXPIRY_SECS + 1
IdleCap == USER_TIME_UNTIL_IDLE + 1

Focus(kind, i) == [kind |-> kind, i |-> i]

\* The ChatState that LoginSuccess constructs.
FreshChatState(username, addr) ==
    [focus |-> Focus("Channels", 0),
     channels |-> <<>>,
     users |-> <<>>,
     chat_history |-> <<>>,
     chat_inputs |-> <<>>,
     active_channel_idx |-> 0,
     current_user |-> [username |-> username, status |-> "Online"],
     chat_scroll_offset |-> 0,
     replying_to |-> Nothing,
     server_connection_status |-> "Connected",
     server_address |-> addr,
     waiting_message_acks_id |-> <<>>,
     incrementing_ack_id |-> ACK_ID_SEED,
     is_typing |-> FALSE,
     time_since_last_typing |-> 0,
     time_since_last_focused |-> Nothing]

\* A function such as a HashMap with key k set to v.
Insert(f, k, v) == [x \in DOMAIN f \cup {k} |-> IF x = k THEN v ELSE f[x]]

\* chat_state.channels.get(chat_state.active_channel_idx)
ActiveChannel(chat) ==
    IF chat.active_channel_idx < Len(chat.channels)
    THEN Some(chat.channels[chat.active_channel_idx + 1])
    ELSE Nothing

\* str::trim().is_empty()
TrimIsEmpty(line) == \A i \in DOMAIN line : line[i] = " "

RECURSIVE TrimStart(_)
TrimStart(line) == IF line # <<>> /\ Head(line) = " " THEN TrimStart(Tail(line)) ELSE line
RECURSIVE TrimEnd(_)
TrimEnd(line) ==
    IF line # <<>> /\ line[Len(line)] = " " THEN TrimEnd(SubSeq(line, 1, Len(line) - 1))
    ELSE line
\* str::trim()
Trim(line) == TrimEnd(TrimStart(line))

\* String::insert(i, chr)
InsertAt(line, i, chr) == SubSeq(line, 1, i) \o <<chr>> \o SubSeq(line, i + 1, Len(line))

\* The Sending messages of every channel become FailedToSend.
MarkSendingFailed(history) ==
    [k \in DOMAIN history |->
        [i \in DOMAIN history[k] |->
            IF history[k][i].status = "Sending"
            THEN [history[k][i] EXCEPT !.status = "FailedToSend"]
            ELSE history[k][i]]]

\* Index of the first message of `messages` with this id, 0 if there is none.
FirstWithId(messages, id) ==
    IF \E i \in DOMAIN messages : messages[i].message_id = id
    THEN CHOOSE i \in DOMAIN messages :
            /\ messages[i].message_id = id
            /\ \A j \in 1..(i - 1) : messages[j].message_id # id
    ELSE 0

\* chat_history.values_mut().flat_map(..).find(|m| m.message_id == id): the
\* HashMap is walked in `order`, an order of the keys the build may produce.
FindMessage(history, id, order) ==
    LET Holds(k) == k \in DOMAIN history /\ FirstWithId(history[k], id) # 0
        ks == SelectSeq(order, Holds)
    IN  IF ks = <<>> THEN Nothing
        ELSE Some([k |-> Head(ks), i |-> FirstWithId(history[Head(ks)], id)])

\* VecDeque::pop_back / push_front
PopBack(q) == [id |-> q[Len(q)], rest |-> SubSeq(q, 1, Len(q) - 1)]
PushFront(q, id) == <<id>> \o q

(***************************************************************************)
(* A handler in progress carries the whole State and the Client.           *)
(***************************************************************************)
Handler(cs, login, chat, map, quit, c) ==
    [current_state |-> cs, login_state |-> login, chat_state |-> chat,
     state_map |-> map, should_quit |-> quit, panicked |-> FALSE,
     c |-> c, out |-> <<>>, n |-> 0, ok |-> TRUE, dialed |-> "no", err |-> "none",
     refused |-> <<>>]

Fail(h) == [h EXCEPT !.ok = FALSE]
Panic(h) == [h EXCEPT !.ok = FALSE, !.panicked = TRUE]

(***************************************************************************)
(* tui/screens/chat/mod.rs: handle_chat_event, one operator per event.     *)
(***************************************************************************)
Chat_MessageSend_keeps_counter(h, env) ==
    LET chat == h.chat_state
    IN  IF ~IsSome(ActiveChannel(chat)) THEN h
        ELSE
        LET channel == Unwrap(ActiveChannel(chat))
        IN
        IF channel.id \notin DOMAIN chat.chat_inputs THEN h
        ELSE IF TrimIsEmpty(chat.chat_inputs[channel.id]) THEN h
        ELSE
        LET reply_id == IF IsSome(chat.replying_to)
                        THEN Unwrap(chat.replying_to).message_id ELSE 0
            temp_message_id == chat.incrementing_ack_id
            message == [message_id |-> temp_message_id, reply_id |-> reply_id,
                        status |-> "Sending", local |-> temp_message_id]
            old == IF channel.id \in DOMAIN chat.chat_history
                   THEN chat.chat_history[channel.id] ELSE <<>>
            chat1 == [chat EXCEPT
                        !.waiting_message_acks_id = Append(@, temp_message_id),
                        !.chat_history = Insert(@, channel.id, Append(old, message))]
            h1 == send([h EXCEPT !.chat_state = chat1],
                       Frame("SendMessage", channel.id, reply_id), env.wfail)
        IN  IF ~h1.ok THEN h1
            ELSE [h1 EXCEPT !.chat_state.replying_to = Nothing,
                            !.chat_state.focus = Focus("ChatInput", 0),
                            !.chat_state.chat_inputs[channel.id] = <<>>]

Chat_MessageSend(h, env) ==
    LET chat == h.chat_state
    IN  IF ~IsSome(ActiveChannel(chat)) THEN h
        ELSE
        LET channel == Unwrap(ActiveChannel(chat))
        IN
        IF channel.id \notin DOMAIN chat.chat_inputs THEN h
        ELSE IF TrimIsEmpty(chat.chat_inputs[channel.id]) THEN h
        ELSE
        LET reply_id == IF IsSome(chat.replying_to)
                        THEN Unwrap(chat.replying_to).message_id ELSE 0
            temp_message_id == chat.incrementing_ack_id
            message == [message_id |-> temp_message_id, reply_id |-> reply_id,
                        status |-> "Sending", local |-> temp_message_id]
            old == IF channel.id \in DOMAIN chat.chat_history
                   THEN chat.chat_history[channel.id] ELSE <<>>
            chat1 == [chat EXCEPT
                        !.waiting_message_acks_id = Append(@, temp_message_id),
                        !.incrementing_ack_id = @ + 1,
                        !.chat_history = Insert(@, channel.id, Append(old, message))]
            h1 == send([h EXCEPT !.chat_state = chat1],
                       Frame("SendMessage", channel.id, reply_id), env.wfail)
        IN  IF ~h1.ok THEN h1
            ELSE [h1 EXCEPT !.chat_state.replying_to = Nothing,
                            !.chat_state.focus = Focus("ChatInput", 0),
                            !.chat_state.chat_inputs[channel.id] = <<>>]

Chat_MessageSendAck(h, message_id, env) ==
    LET chat == h.chat_state
    IN  IF chat.waiting_message_acks_id = <<>> THEN h
        ELSE
        LET popped == PopBack(chat.waiting_message_acks_id)
            found == FindMessage(chat.chat_history, popped.id, env.order)
        IN  IF IsSome(found)
            THEN LET at == Unwrap(found)
                 IN  [h EXCEPT !.chat_state.waiting_message_acks_id = popped.rest,
                               !.chat_state.chat_history[at.k][at.i].status = "Send",
                               !.chat_state.chat_history[at.k][at.i].message_id = message_id]
            ELSE [h EXCEPT !.chat_state.waiting_message_acks_id =
                                PushFront(popped.rest, popped.id)]

RECURSIVE HistoryLoop(_, _)
\* The loop of the HistoryUpdate handler: [history, ok] after `messages`.
HistoryLoop(history, messages) ==
    IF messages = <<>> THEN [history |-> history, ok |-> TRUE]
    ELSE
    LET message == Head(messages)
    IN  IF ~message.ts_ok THEN [history |-> history, ok |-> FALSE]
        ELSE
        LET display_message == [message_id |-> message.message_id,
                                reply_id |-> message.reply_id,
                                status |-> "Send", local |-> 0]
            display_messages == IF message.channel_id \in DOMAIN history
                                THEN history[message.channel_id] ELSE <<>>
            pushed == IF \E i \in DOMAIN display_messages :
                            display_messages[i].message_id = display_message.message_id
                      THEN display_messages
                      ELSE Append(display_messages, display_message)
        IN  HistoryLoop(Insert(history, message.channel_id, pushed), Tail(messages))

Chat_HistoryUpdate(h, messages) ==
    LET res == HistoryLoop(h.chat_state.chat_history, messages)
    IN  [h EXCEPT !.chat_state.chat_history = res.history, !.ok = res.ok]

\* Screen::Chat(username, password, server address): the key of a cached
\* ChatState. The password is typed, kept and compared as the username is and
\* is left out; an address is compared without its domain.
ChatKey(username, addr) == [username |-> username, server |-> addr.connection_type]

\* The parts of Logout and Disconnected that fail the pending messages.
FailPending(chat) ==
    [chat EXCEPT !.chat_history = MarkSendingFailed(@),
                 !.waiting_message_acks_id = <<>>]

\* client.send_typing(channel.id, false) if a channel is active and `cond` holds
TypingStopped(h, cond, env) ==
    IF IsSome(ActiveChannel(h.chat_state)) /\ cond
    THEN send(h, Frame("Typing", Unwrap(ActiveChannel(h.chat_state)).id, FALSE), env.wfail)
    ELSE h

Chat_Logout(h, env) ==
    IF ~IsSome(h.state_map.Login) THEN [h EXCEPT !.should_quit = TRUE]
    ELSE
    LET h1 == TypingStopped(h, h.chat_state.is_typing, env)
    IN  IF ~h1.ok THEN h1
        ELSE
        LET chat1 == FailPending(h1.chat_state)
            key == ChatKey(Trim(chat1.current_user.username), chat1.server_address)
        IN  [h1 EXCEPT !.c = disconnect(@),
                       !.chat_state = Nothing,
                       !.state_map.Chat = Insert(@, key, chat1),
                       !.current_state = "Login",
                       !.login_state = Unwrap(h.state_map.Login)]

Chat_Disconnected_keeps_queue(h) ==
    IF h.chat_state.server_connection_status = "Reconnecting" THEN h
    ELSE [h EXCEPT !.chat_state = [@ EXCEPT
                                        !.chat_history = MarkSendingFailed(@),
                                        !.server_connection_status = "Reconnecting"],
                   !.c = disconnect(@)]

Chat_Disconnected(h) ==
    IF h.chat_state.server_connection_status = "Reconnecting" THEN h
    ELSE [h EXCEPT !.chat_state = [FailPending(@) EXCEPT
                                        !.server_connection_status = "Reconnecting"],
                   !.c = disconnect(@)]

Chat_PossiblyUnhealthyConnection_skips_client(h) ==
    [h EXCEPT !.chat_state.server_connection_status = "Unhealthy"]

Chat_PossiblyUnhealthyConnection(h) ==
    [h EXCEPT !.c.connection_status = "Unhealthy",
              !.chat_state.server_connection_status = "Unhealthy"]

Chat_Reconnect_gives_up(h, env) ==
    LET r == reconnect(h.c, h.chat_state.server_address, env.dial, env.wfail)
        h1 == [h EXCEPT !.c = r.c, !.out = r.out, !.n = r.n, !.ok = r.ok, !.dialed = r.dialed,
                        !.err = r.err, !.refused = r.refused]
    IN  IF h.c.connection_status = "Reconnecting" THEN Fail(h)
        ELSE IF ~h1.ok THEN h1
        ELSE [h1 EXCEPT !.chat_state.server_connection_status = h1.c.connection_status]

Chat_Reconnect(h, env) ==
    LET r == reconnect(h.c, h.chat_state.server_address, env.dial, env.wfail)
        h1 == [h EXCEPT !.c = r.c, !.out = r.out, !.n = r.n, !.ok = r.ok, !.dialed = r.dialed,
                        !.err = r.err, !.refused = r.refused]
    IN  IF ~h1.ok THEN h1
        ELSE [h1 EXCEPT !.chat_state.server_connection_status = h1.c.connection_status]

Chat_TypingExpired_keeps_flag(h, env) == TypingStopped(h, TRUE, env)

Chat_TypingExpired(h, env) ==
    TypingStopped([h EXCEPT !.chat_state.is_typing = FALSE], TRUE, env)

Chat_InputChar(h, chr, env) ==
    LET chat == h.chat_state
    IN  IF chat.focus.kind # "ChatInput" \/ ~IsSome(ActiveChannel(chat)) THEN h
        ELSE
        LET channel == Unwrap(ActiveChannel(chat))
        IN
        IF channel.id \notin DOMAIN chat.chat_inputs THEN h
        ELSE
        LET i == chat.focus.i
            input_line == chat.chat_inputs[channel.id]
        IN  IF i > Len(input_line) THEN Panic(h)     \* String::insert past the end
            ELSE
            LET h1 == [h EXCEPT !.chat_state.chat_inputs[channel.id] = InsertAt(input_line, i, chr),
                                !.chat_state.focus = Focus("ChatInput", i + 1),
                                !.chat_state.time_since_last_typing = 0]
            IN  IF ~chat.is_typing
                THEN send([h1 EXCEPT !.chat_state.is_typing = TRUE],
                          Frame("Typing", channel.id, TRUE), env.wfail)
                ELSE h1

Chat_ChannelUp(h, env) ==
    LET chat == h.chat_state
        idx == IF chat.active_channel_idx = 0
               THEN (IF Len(chat.channels) = 0 THEN 0 ELSE Len(chat.channels) - 1)
               ELSE chat.active_channel_idx - 1
        h1 == [h EXCEPT !.chat_state.active_channel_idx = idx]
    IN  TypingStopped(h1, chat.is_typing, env)

Chat_ChannelDown(h, env) ==
    LET chat == h.chat_state
    IN  IF Len(chat.channels) = 0 THEN Panic(h)     \* remainder by zero
        ELSE TypingStopped(
                [h EXCEPT !.chat_state.active_channel_idx =
                            (chat.active_channel_idx + 1) % Len(chat.channels)],
                chat.is_typing, env)

RECURSIVE Chat_Channels(_, _, _)
Chat_Channels(h, channels, env) ==
    IF channels = <<>> \/ ~h.ok THEN h
    ELSE
    LET channel_id == Head(channels)
        h1 == [h EXCEPT !.chat_state.chat_inputs = Insert(@, channel_id, <<>>),
                        !.chat_state.channels =
                            Append(@, [id |-> channel_id, selection_offset |-> 0])]
    IN  Chat_Channels(send(h1, Frame("History", channel_id, HISTORY_MESSAGES_BACK), env.wfail),
                      Tail(channels), env)

Chat_ChannelIDs(h, channel_ids, env) ==
    IF channel_ids # <<>> THEN send(h, Frame("Channels", channel_ids, 0), env.wfail)
    ELSE h

\* The loop of the UserStatusesUpdate handler: the users with the statuses of
\* `status_updates` set, and the ids it found no user for. `users` maps the
\* id of every user of the Vec to the status: an id is in the Vec once. The
\* loop never adds a user, so that each update meets the users it started
\* with: a user ends with the status of the last update that names it, and
\* the ids not found are those of the other updates, in their order.
StatusLoop(users, status_updates) ==
    LET Found(status_update) == status_update.id \in DOMAIN users
        NotFound(status_update) == status_update.id \notin DOMAIN users
        found == SelectSeq(status_updates, Found)
        not_found == SelectSeq(status_updates, NotFound)
        Updates(id) == {i \in DOMAIN found : found[i].id = id}
        LastOf(id) == CHOOSE i \in Updates(id) : \A k \in Updates(id) : k <= i
    IN  [users |-> IF found = <<>> THEN users
                   ELSE [id \in DOMAIN users |->
                            IF Updates(id) = {} THEN users[id]
                            ELSE found[LastOf(id)].status],
         users_not_found |-> IF not_found = <<>> THEN <<>>
                             ELSE [i \in 1..Len(not_found) |-> not_found[i].id]]

Chat_UserStatusesUpdate(h, status_updates, env) ==
    LET res == StatusLoop(h.chat_state.users, status_updates)
        h1 == [h EXCEPT !.chat_state.users = res.users]
    IN  IF res.users_not_found # <<>>
        THEN send(h1, Frame("Users", res.users_not_found, 0), env.wfail)
        ELSE h1

RECURSIVE Chat_Users(_, _)
\* The users of the reply take its statuses: those known, in place; the
\* others are appended.
Chat_Users(h, users) ==
    IF users = <<>> THEN h
    ELSE Chat_Users([h EXCEPT !.chat_state.users = Insert(@, Head(users).id, Head(users).status)],
                    Tail(users))

Chat_HealthCheckRecv_restores_status(h, env) ==
    send(send([h EXCEPT !.c.connection_status = "Connected",
                        !.chat_state.server_connection_status = "Connected"],
              Frame("Healthcheck", "Pong", 0), env.wfail),
         Frame("UserStatuses", 0, 0), env.wfail)

Chat_HealthCheckRecv(h, env) ==
    send(send(h, Frame("Healthcheck", "Pong", 0), env.wfail),
         Frame("UserStatuses", 0, 0), env.wfail)

Chat_Exit(h, env) ==
    send([h EXCEPT !.should_quit = TRUE], Frame("Status", "Offline", 0), env.wfail)

Chat_FocusGained(h, env) ==
    send([h EXCEPT !.chat_state.time_since_last_focused = Nothing,
                   !.chat_state.current_user.status = "Online"],
         Frame("Status", "Online", 0), env.wfail)

Chat_FocusLost(h) == [h EXCEPT !.chat_state.time_since_last_focused = Some(0)]

Chat_IdleUser(h, env) ==
    send([h EXCEPT !.chat_state.current_user.status = "Idle"],
         Frame("Status", "Idle", 0), env.wfail)

Chat_ChatFocusChange(h, focus) == [h EXCEPT !.chat_state.focus = focus]

\* Reply: the message under the selection becomes the one replied to, as a
\* copy of what it is now; pressed again on the same message it is dropped.
\* The user does not scroll: chat_scroll_offset and selection_offset stay 0.
Chat_Reply(h) ==
    LET chat == h.chat_state
        channel == ActiveChannel(chat)
        chatlog == IF IsSome(channel) /\ Unwrap(channel).id \in DOMAIN chat.chat_history
                   THEN Some(chat.chat_history[Unwrap(channel).id]) ELSE Nothing
        index == IF IsSome(channel)
                 THEN chat.chat_scroll_offset + Unwrap(channel).selection_offset ELSE 0
    IN  IF IsSome(chatlog) /\ index < Len(Unwrap(chatlog))
        THEN LET message == Unwrap(chatlog)[index + 1]
             IN  [h EXCEPT !.chat_state.replying_to =
                                IF chat.replying_to = Some(message) THEN Nothing
                                ELSE Some(message)]
        ELSE [h EXCEPT !.chat_state.replying_to = Nothing]

\* handle_chat_event
handle_chat_event(h, event, env) ==
    CASE event.type = "MessageSend" -> Chat_MessageSend(h, env)
      [] event.type = "MessageSendAck" -> Chat_MessageSendAck(h, event.arg, env)
      [] event.type = "HistoryUpdate" -> Chat_HistoryUpdate(h, event.arg)
      [] event.type = "Logout" -> Chat_Logout(h, env)
      [] event.type = "Disconnected" -> Chat_Disconnected(h)
      [] event.type = "PossiblyUnhealthyConnection" -> Chat_PossiblyUnhealthyConnection(h)
      [] event.type = "Reconnect" -> Chat_Reconnect(h, env)
      [] event.type = "TypingExpired" -> Chat_TypingExpired(h, env)
      [] event.type = "InputChar" -> Chat_InputChar(h, event.arg, env)
      [] event.type = "ChannelUp" -> Chat_ChannelUp(h, env)
      [] event.type = "ChannelDown" -> Chat_ChannelDown(h, env)
      [] event.type = "Channels" -> Chat_Channels(h, event.arg, env)
      [] event.type = "ChannelIDs" -> Chat_ChannelIDs(h, event.arg, env)
      [] event.type = "HealthCheckRecv" -> Chat_HealthCheckRecv(h, env)
      [] event.type = "UserStatusesUpdate" -> Chat_UserStatusesUpdate(h, event.arg, env)
      [] event.type = "Users" -> Chat_Users(h, event.arg)
      [] event.type = "Exit" -> Chat_Exit(h, env)
      [] event.type = "FocusGained" -> Chat_FocusGained(h, env)
      [] event.type = "FocusLost" -> Chat_FocusLost(h)
      [] event.type = "IdleUser" -> Chat_IdleUser(h, env)
      [] event.type = "ChatFocusChange" -> Chat_ChatFocusChange(h, event.arg)
      [] event.type = "Reply" -> Chat_Reply(h)
      [] OTHER -> h

(***************************************************************************)
(* network/protocol: the header and the server payloads, as read.          *)
(***************************************************************************)
\* A u32 as two 16 bit halves.
U32(hi, lo) == [hi |-> hi, lo |-> lo]
Half == 65536
\* u32 + n for a small n: the wrapped sum and whether it overflowed
U32Add(x, n) ==
    LET lo == x.lo + n
        hi == x.hi + (lo \div Half)
    IN  [sum |-> U32(hi % Half, lo % Half), overflow |-> hi \div Half # 0]
\* x as usize > n, for n below 2^16
U32Gt(x, n) == x.hi > 0 \/ x.lo > n

\* ServerPacketType::deserialize_byte
ServerPacketType(byte) ==
    CASE byte = 0 -> "Healthcheck" [] byte = 1 -> "LoginAck" [] byte = 2 -> "SendMessageAck"
      [] byte = 3 -> "SendMediaAck" [] byte = 4 -> "ChannelList" [] byte = 5 -> "Channels"
      [] byte = 6 -> "History" [] byte = 7 -> "UserStatuses" [] byte = 8 -> "Users"
      [] byte = 9 -> "Media" [] byte = 10 -> "Typing" [] byte = 11 -> "UserStatus"
      [] OTHER -> "Err"

\* PacketType::deserialize: the high bit marks a client packet
PacketType(byte) == IF byte \div 128 = 0 THEN ServerPacketType(byte) ELSE "Err"

\* ReturnStatus::deserialize_byte
ReturnStatus(byte) ==
    CASE byte = 0 -> "Success" [] byte = 1 -> "Failed" [] byte = 2 -> "Notification"
      [] OTHER -> "Err"

\* HealthKind::deserialize_byte
HealthKind(byte) == CASE byte = 0 -> "Ping" [] byte = 1 -> "Pong" [] OTHER -> "Err"

\* Header::deserialize
Header_deserialize(frame) ==
    IF frame.magic # "CHTG" THEN "Err"
    ELSE IF frame.version # 1 THEN "Err"
    ELSE PacketType(frame.ptype)

\* ServerPayload::deserialize_packet: first byte b0 is the kind of a
\* Healthcheck and the status of a reply; utf8 tells whether the error text
\* of a Failed reply decodes.
deserialize_packet(payload, packet_type) ==
    CASE packet_type = "Healthcheck" ->
            IF HealthKind(payload.b0) = "Err" THEN [type |-> "Err"]
            ELSE [type |-> "Health", kind |-> HealthKind(payload.b0)]
      [] packet_type \in {"Typing", "UserStatus"} ->
            [type |-> packet_type, arg |-> payload.arg]
      [] OTHER ->
            IF ReturnStatus(payload.b0) = "Err" THEN [type |-> "Err"]
            ELSE IF ReturnStatus(payload.b0) = "Failed" /\ ~payload.utf8 THEN [type |-> "Err"]
            ELSE [type |-> packet_type, status |-> ReturnStatus(payload.b0),
                  arg |-> payload.arg]

\* Client::read_message: "Err", "Panic", or the payload. frame.io tells where
\* the stream ends or fails: "header", "payload" or "no".
read_message(frame, build) ==
    IF frame.io = "header" THEN [result |-> "Err"]
    ELSE IF Header_deserialize(frame) = "Err" THEN [result |-> "Err"]
    ELSE
    LET payload_size == frame.length
        plus == U32Add(payload_size, HEADER_LENGTH)
    IN  IF plus.overflow /\ build = "debug" THEN [result |-> "Panic"]  \* add with overflow
        ELSE IF U32Gt(plus.sum, MAX_MESSAGE_LENGTH) THEN [result |-> "Err"]
        ELSE IF U32Gt(payload_size, MAX_MESSAGE_LENGTH) THEN [result |-> "Panic"] \* slice end
        ELSE IF frame.io = "payload" THEN [result |-> "Err"]
        ELSE
        LET payload == deserialize_packet(frame.payload, Header_deserialize(frame))
        IN  IF payload.type = "Err" THEN [result |-> "Err"]
            ELSE [result |-> "Ok", payload |-> payload]

Event(type, arg) == [type |-> type, arg |-> arg]

\* The event a Success reply is turned into.
ReplyEvent(payload) ==
    CASE payload.type = "LoginAck" -> Event("LoginSuccess", 0)
      [] payload.type = "Channels" -> Event("Channels", payload.arg)
      [] payload.type = "ChannelList" -> Event("ChannelIDs", payload.arg)
      [] payload.type = "UserStatuses" -> Event("UserStatusesUpdate", payload.arg)
      [] payload.type = "Users" -> Event("Users", payload.arg)
      [] payload.type = "History" -> Event("HistoryUpdate", payload.arg)
      [] payload.type = "SendMessageAck" -> Event("MessageSendAck", payload.arg)
      [] payload.type = "SendMediaAck" -> Event("MessageMediaAck", payload.arg)
      [] payload.type = "Media" -> Event("Media", payload.arg)

\* network::handle_message: the events sent on the bus, and whether it
\* returns Err.
handle_message(payload) ==
    CASE payload.type = "Health" ->
            IF payload.kind = "Ping" THEN [events |-> <<Event("HealthCheckRecv", 0)>>, err |-> FALSE]
            ELSE [events |-> <<>>, err |-> TRUE]
      [] payload.type = "Typing" -> [events |-> <<Event("Typing", payload.arg)>>, err |-> FALSE]
      [] payload.type = "UserStatus" ->
            [events |-> <<Event("UserStatusUpdate", payload.arg)>>, err |-> FALSE]
      [] OTHER ->
            IF payload.status = "Success" \/ (payload.status = "Notification" /\ payload.type = "History")
            THEN [events |-> <<ReplyEvent(payload)>>, err |-> FALSE]
            ELSE IF payload.status = "Failed" /\ payload.type = "LoginAck"
            THEN [events |-> <<Event("LoginFail", payload.arg)>>, err |-> TRUE]
            ELSE [events |-> <<>>, err |-> TRUE]

receiving_task_stops_on_error(frame, build) ==
    LET r == read_message(frame, build)
    IN  CASE r.result = "Panic" -> [events |-> <<>>, handle |-> "panicked", read |-> FALSE]
          [] r.result = "Err" ->
                [events |-> <<Event("Disconnected", 0)>>, handle |-> "exited", read |-> FALSE]
          [] OTHER ->
                IF handle_message(r.payload).err
                THEN [events |-> handle_message(r.payload).events \o <<Event("Disconnected", 0)>>,
                      handle |-> "exited", read |-> TRUE]
                ELSE [events |-> handle_message(r.payload).events,
                      handle |-> "running", read |-> TRUE]

\* One turn of the loop of Client::receiving_task: the events it sends, what
\* becomes of the task, and whether read_message updated the timestamp.
receiving_task(frame, build) ==
    LET r == read_message(frame, build)
    IN  CASE r.result = "Panic" -> [events |-> <<>>, handle |-> "panicked", read |-> FALSE]
          [] r.result = "Err" ->
                [events |-> <<Event("Disconnected", 0)>>, handle |-> "exited", read |-> FALSE]
          [] OTHER ->
                [events |-> handle_message(r.payload).events,
                 handle |-> "running", read |-> TRUE]

(***************************************************************************)
(* network/protocol at the level of bytes: a frame is the sequence of its  *)
(* bytes, a u16, u32 or u64 the sequence of its 16 bit parts, the most     *)
(* significant first.                                                      *)
(***************************************************************************)
MaxPayload == 2      \* payload bytes of a frame read at the level of bytes

\* to_be_bytes
to_be_bytes(x) ==
    [i \in 1..2 * Len(x) |-> IF i % 2 = 1 THEN x[(i + 1) \div 2] \div 256
                             ELSE x[i \div 2] % 256]
\* from_be_bytes
from_be_bytes(bytes) ==
    [i \in 1..Len(bytes) \div 2 |-> bytes[2 * i - 1] * 256 + bytes[2 * i]]

MAGIC == <<67, 72, 84, 71>>     \* b"CHTG"

\* The header a receiver finds in the first ten bytes it reads.
HeaderOf(bytes) ==
    [magic |-> IF SubSeq(bytes, 1, 4) = MAGIC THEN "CHTG" ELSE "other",
     version |-> bytes[5],
     ptype |-> bytes[6],
     length |-> U32(from_be_bytes(SubSeq(bytes, 7, 10))[1],
                    from_be_bytes(SubSeq(bytes, 7, 10))[2])]

\* payload_buffer: [0; MAX_MESSAGE_LENGTH], of which the model keeps the first
\* MaxPayload + 1 bytes. A payload has at most MAX_MESSAGE_LENGTH - 10 bytes,
\* and MaxPayload here: the bytes after those are 0 as long as the task runs.
ZeroedBuffer == [i \in 1..MaxPayload + 1 |-> 0]

\* String::deserialize: up to the first NUL of `bytes`, the rest of the
\* buffer. With no NUL in it the length is MAX_MESSAGE_LENGTH and the slice
\* bytes[0..length] is out of range.
String_deserialize(bytes) ==
    IF \A i \in DOMAIN bytes : bytes[i] # 0 THEN [result |-> "Panic"]
    ELSE
    LET length == (CHOOSE i \in DOMAIN bytes :
                        bytes[i] = 0 /\ \A j \in 1..i - 1 : bytes[j] # 0) - 1
    IN  IF \E i \in 1..length : bytes[i] >= 128 THEN [result |-> "Err"]   \* from_utf8
        ELSE [result |-> "Ok", value |-> Some(SubSeq(bytes, 1, length)), len |-> length]

\* deserialize_error
deserialize_error(bytes, status) ==
    IF status = "Failed" THEN String_deserialize(bytes)
    ELSE [result |-> "Ok", value |-> Nothing, len |-> 0]

\* LoginAckPacket::deserialize
LoginAckPacket_deserialize(bytes) ==
    LET status == ReturnStatus(bytes[1])
    IN  IF status = "Err" THEN [result |-> "Err"]
        ELSE
        LET error == deserialize_error(SubSeq(bytes, 2, Len(bytes)), status)
        IN  IF error.result # "Ok" THEN error
            ELSE [result |-> "Ok",
                  value |-> [type |-> "Login", status |-> status,
                             error_message |-> error.value],
                  len |-> 1 + error.len]

\* HealthCheckPacket::deserialize
HealthCheckPacket_deserialize(bytes) ==
    IF HealthKind(bytes[1]) = "Err" THEN [result |-> "Err"]
    ELSE [result |-> "Ok", value |-> [type |-> "Health", kind |-> HealthKind(bytes[1])],
          len |-> 1]

\* ServerPayload::deserialize_packet over the bytes of the payload buffer,
\* for the two packets the model reads at this level.
deserialize_packet_bytes(bytes, packet_type) ==
    IF packet_type = "LoginAck" THEN LoginAckPacket_deserialize(bytes)
    ELSE HealthCheckPacket_deserialize(bytes)

\* Client::read_message over the bytes `stream` holds, into payload_buffer:
\* the result, and the buffer it leaves.
read_message_bytes(stream, payload_buffer, build) ==
    IF Len(stream) < HEADER_LENGTH
    THEN [read |-> [result |-> "Err"], payload_buffer |-> payload_buffer]
    ELSE
    LET header == HeaderOf(stream)
        plus == U32Add(header.length, HEADER_LENGTH)
    IN  IF Header_deserialize(header) = "Err"
        THEN [read |-> [result |-> "Err"], payload_buffer |-> payload_buffer]
        ELSE IF plus.overflow /\ build = "debug"
        THEN [read |-> [result |-> "Panic"], payload_buffer |-> payload_buffer]
        ELSE IF U32Gt(plus.sum, MAX_MESSAGE_LENGTH)
        THEN [read |-> [result |-> "Err"], payload_buffer |-> payload_buffer]
        ELSE IF U32Gt(header.length, MAX_MESSAGE_LENGTH)
        THEN [read |-> [result |-> "Panic"], payload_buffer |-> payload_buffer]
        ELSE IF Len(stream) < HEADER_LENGTH + header.length.lo
        THEN [read |-> [result |-> "Err"], payload_buffer |-> payload_buffer]
        ELSE
        LET payload_size == header.length.lo
            filled == [i \in DOMAIN payload_buffer |->
                        IF i <= payload_size THEN stream[HEADER_LENGTH + i]
                        ELSE payload_buffer[i]]
            payload == deserialize_packet_bytes(filled, Header_deserialize(header))
        IN  [read |-> payload, payload_buffer |-> filled]

\* A u64 below 2^16, and the byte a count or an i8 is written as.
U64(n) == <<0, 0, 0, n>>
Byte(n) == n % 256

\* ClientPacketType as u8
ClientPacketType(type) ==
    CASE type = "Health" -> 128 [] type = "Login" -> 129 [] type = "SendMessage" -> 130
      [] type = "SendMedia" -> 131 [] type = "ChannelsList" -> 132 [] type = "Channels" -> 133
      [] type = "History" -> 134 [] type = "UserStatuses" -> 135 [] type = "Users" -> 136
      [] type = "Media" -> 137 [] type = "Typing" -> 138 [] type = "Status" -> 139

\* Header::new(packet_type, length).serialize()
Header_serialize(packet_type, length) ==
    MAGIC \o <<1, packet_type>> \o to_be_bytes(<<length \div Half, length % Half>>)

\* for id in ids { bytes.extend(id.to_be_bytes()) }: 8 bytes for each id
Ids_serialize(ids) ==
    [i \in 1..8 * Len(ids) |-> to_be_bytes(ids[(i + 7) \div 8])[((i - 1) % 8) + 1]]

\* Anchor: Timestamp(u64) or MessageId(u64)
Anchor(kind, value) == [kind |-> kind, value |-> value]
\* Anchor::serialize: anchor.to_be_bytes() in both arms
Anchor_serialize(anchor) == to_be_bytes(anchor.value)

\* GetHistoryPacket::serialize
GetHistoryPacket_serialize(packet) ==
    to_be_bytes(packet.channel_id) \o Anchor_serialize(packet.anchor)
        \o <<Byte(packet.num_messages_back + 256)>>

\* ClientPayload::serialize
ClientPayload_serialize(payload) ==
    CASE payload.type = "Login" -> payload.username \o <<0>> \o payload.password
      [] payload.type = "Health" -> <<IF payload.kind = "Ping" THEN 0 ELSE 1>>
      [] payload.type = "SendMessage" ->
            to_be_bytes(payload.channel_id) \o to_be_bytes(payload.reply_id)
                \o <<Byte(Len(payload.media_ids))>> \o Ids_serialize(payload.media_ids)
                \o payload.message_text
      [] payload.type = "Channels" ->
            to_be_bytes(<<Len(payload.channel_ids) % Half>>) \o Ids_serialize(payload.channel_ids)
      [] payload.type \in {"ChannelsList", "UserStatuses"} -> <<>>
      [] payload.type = "Users" ->
            <<Byte(Len(payload.user_ids))>> \o Ids_serialize(payload.user_ids)
      [] payload.type = "History" -> GetHistoryPacket_serialize(payload)
      [] payload.type = "Media" -> to_be_bytes(payload.media_id)
      [] payload.type = "Typing" ->
            <<IF payload.is_typing THEN 1 ELSE 0>> \o to_be_bytes(payload.channel_id)
      [] payload.type = "Status" -> <<payload.status>>

\* Client::send_message: the packet it writes
send_message(payload) ==
    Header_serialize(ClientPacketType(payload.type), Len(ClientPayload_serialize(payload)))
        \o ClientPayload_serialize(payload)

(***************************************************************************)
(* tui/screens/login/mod.rs: handle_login_event                            *)
(***************************************************************************)
ServerAddrInfo(connection_type, domain) ==
    [connection_type |-> connection_type, domain |-> domain]

\* The outcomes of parsing and resolving the server address input.
Resolutions == {"literal", "dns_ok", "dns_err", "dns_empty"}

\* The input status an Err of connect leaves: only io::Error is classified.
ConnectFailure(status, err) ==
    CASE err \in {"invalid_input", "refused"} -> "ServerNotFound"
      [] err \in {"io_other", "tls_handshake"} -> "UnknownError"
      [] OTHER -> status

Login_Login(h, env) ==
    LET login == h.login_state
    IN  IF env.resolve = "literal" /\ login.enable_tls THEN Fail(h)
        ELSE IF env.resolve = "dns_err"
        THEN Fail([h EXCEPT !.login_state.input_status = "AddressNotParsable"])
        ELSE IF env.resolve = "dns_empty"
        THEN Fail([h EXCEPT !.login_state.input_status = "ServerNotFound"])
        ELSE
        LET server_address ==
                IF env.resolve = "literal" THEN ServerAddrInfo("Raw", FALSE)
                ELSE ServerAddrInfo(IF login.enable_tls THEN "TLS" ELSE "Raw", TRUE)
            con == connect(h.c, server_address, env.dial)
            h1 == [h EXCEPT !.c = con.c, !.dialed = con.dialed, !.err = con.err]
        IN  IF con.err # "none"
            THEN [h1 EXCEPT !.login_state.input_status = ConnectFailure(@, con.err)]
            ELSE
            LET h2 == send(h1, Frame("Login", 0, 0), env.wfail)
            IN  IF ~h2.ok THEN h2
                ELSE send([h2 EXCEPT !.login_state.server_address = Some(server_address)],
                          Frame("Status", "Online", 0), env.wfail)

Login_LoginSuccess(h, env) ==
    LET login == h.login_state
    IN  IF ~IsSome(login.server_address) THEN Panic(h)    \* "Should be unreachable"
        ELSE
        LET server_address == Unwrap(login.server_address)
            saved == [login EXCEPT !.input_status = "AllFine"]
            h1 == [h EXCEPT !.login_state = saved, !.state_map.Login = Some(saved)]
            key == ChatKey(login.username_input, server_address)
        IN  IF key \in DOMAIN h.state_map.Chat
            THEN [h1 EXCEPT !.current_state = "Chat",
                            !.chat_state = h.state_map.Chat[key],
                            !.login_state = Nothing]
            ELSE
            LET h2 == send(send(h1, Frame("ChannelList", 0, 0), env.wfail),
                           Frame("UserStatuses", 0, 0), env.wfail)
            IN  IF ~h2.ok THEN h2
                ELSE [h2 EXCEPT !.current_state = "Chat",
                                !.chat_state = FreshChatState(login.username_input, server_address),
                                !.login_state = Nothing]

Login_LoginFail_keeps_connection(h, message) ==
    [h EXCEPT !.login_state.input_status =
                    IF message = "Incorrect username or password."
                    THEN "IncorrectUsernameOrPassword" ELSE "FailedToLogin"]

Login_LoginFail(h, message) ==
    [h EXCEPT !.login_state.input_status =
                    IF message = "Incorrect username or password."
                    THEN "IncorrectUsernameOrPassword" ELSE "FailedToLogin",
              !.c = disconnect(@)]

Login_Exit(h) == [h EXCEPT !.should_quit = TRUE]

\* The input fields of the form: the LoginState field behind a focus, and the
\* cursor index up to which InputChar inserts into it.
InputKinds == {"UsernameInput", "PasswordInput", "ServerAddressInput"}
InputField(kind) ==
    CASE kind = "UsernameInput" -> "username_input"
      [] kind = "PasswordInput" -> "password_input"
      [] kind = "ServerAddressInput" -> "server_address_input"
USERNAME_INDEX_END == 129
PASSWORD_INDEX_END == 1025
SERVER_ADDRESS_INDEX_END == 64
InsertGuard(kind) ==
    CASE kind = "UsernameInput" -> USERNAME_INDEX_END
      [] kind = "PasswordInput" -> PASSWORD_INDEX_END
      [] kind = "ServerAddressInput" -> SERVER_ADDRESS_INDEX_END

\* String::remove(i - 1)
RemoveAt(line, i) == SubSeq(line, 1, i - 1) \o SubSeq(line, i + 1, Len(line))

Login_LoginFocusChange(h, focus) == [h EXCEPT !.login_state.focus = focus]

\* String::insert panics at an index past the end of the string.
Login_InputChar(h, chr) ==
    LET focus == h.login_state.focus
    IN  IF focus.kind \notin InputKinds \/ ~(focus.i < InsertGuard(focus.kind)) THEN h
        ELSE IF focus.i > Len(h.login_state[InputField(focus.kind)]) THEN Panic(h)
        ELSE [h EXCEPT !.login_state[InputField(focus.kind)] = InsertAt(@, focus.i, chr),
                       !.login_state.focus = Focus(focus.kind, focus.i + 1),
                       !.login_state.input_status = "AllFine"]

\* String::remove panics at an index that is not inside the string.
Login_InputDelete(h) ==
    LET focus == h.login_state.focus
    IN  IF focus.kind \notin InputKinds \/ ~(focus.i > 0) THEN h
        ELSE IF focus.i > Len(h.login_state[InputField(focus.kind)]) THEN Panic(h)
        ELSE [h EXCEPT !.login_state[InputField(focus.kind)] = RemoveAt(@, focus.i),
                       !.login_state.focus = Focus(focus.kind, focus.i - 1),
                       !.login_state.input_status = "AllFine"]

Login_InputLeft(h) ==
    LET focus == h.login_state.focus
    IN  IF focus.kind \in InputKinds /\ focus.i > 0
        THEN [h EXCEPT !.login_state.focus = Focus(focus.kind, focus.i - 1)]
        ELSE h

Login_InputRight(h) ==
    LET focus == h.login_state.focus
    IN  IF focus.kind \in InputKinds /\ focus.i < Len(h.login_state[InputField(focus.kind)])
        THEN [h EXCEPT !.login_state.focus = Focus(focus.kind, focus.i + 1)]
        ELSE h

Login_InputLeftTab(h) ==
    LET focus == h.login_state.focus
    IN  IF focus.kind \in InputKinds
        THEN [h EXCEPT !.login_state.focus = Focus(focus.kind, 0)]
        ELSE h

Login_InputRightTab(h) ==
    LET focus == h.login_state.focus
    IN  IF focus.kind \in InputKinds
        THEN [h EXCEPT !.login_state.focus =
                            Focus(focus.kind, Len(h.login_state[InputField(focus.kind)]))]
        ELSE h

\* handle_login_event
handle_login_event(h, event, env) ==
    CASE event.type = "Login" -> Login_Login(h, env)
      [] event.type = "LoginFocusChange" -> Login_LoginFocusChange(h, event.arg)
      [] event.type = "InputChar" -> Login_InputChar(h, event.arg)
      [] event.type = "InputDelete" -> Login_InputDelete(h)
      [] event.type = "InputLeft" -> Login_InputLeft(h)
      [] event.type = "InputRight" -> Login_InputRight(h)
      [] event.type = "InputLeftTab" -> Login_InputLeftTab(h)
      [] event.type = "InputRightTab" -> Login_InputRightTab(h)
      [] event.type = "LoginSuccess" -> Login_LoginSuccess(h, env)
      [] event.type = "LoginFail" -> Login_LoginFail(h, event.arg)
      [] event.type = "Exit" -> Login_Exit(h)
      [] OTHER -> h

\* State::handle_event
handle_event(h, event, env) ==
    IF h.current_state = "Chat" THEN handle_chat_event(h, event, env)
    ELSE handle_login_event(h, event, env)

(***************************************************************************)
(* tui/screens/*/keys.rs: terminal events to update events                 *)
(***************************************************************************)
Keys == {"Enter", "Up", "Down", "Left", "Right", "CtrlLeft", "CtrlRight", "Backspace", "Esc",
         "q", "x", "a", " ", "s", "r", "FocusLost", "FocusGained"}

handle_chat_key_event(key, focus) ==
    CASE key = "FocusLost" -> Some(Event("FocusLost", 0))
      [] key = "FocusGained" -> Some(Event("FocusGained", 0))
      [] focus.kind = "Channels" ->
            (CASE key = "Up" -> Some(Event("ChannelUp", 0))
               [] key = "Down" -> Some(Event("ChannelDown", 0))
               [] key = "Enter" -> Some(Event("ChatFocusChange", Focus("ChatHistory", 0)))
               [] key = "q" -> Some(Event("Exit", 0))
               [] key = "x" -> Some(Event("Logout", 0))
               [] OTHER -> Nothing)
      [] focus.kind = "ChatHistory" ->
            (CASE key = "Left" -> Some(Event("ChatFocusChange", Focus("Channels", 0)))
               [] key = "q" -> Some(Event("Exit", 0))
               [] key = "x" -> Some(Event("Logout", 0))
               [] key = "s" ->
                    Some(Event("ChatFocusChange", Focus("ChatHistorySelection", 0)))
               [] key \in {"a", " ", "r", "Enter"} ->
                    Some(Event("ChatFocusChange", Focus("ChatInput", 0)))
               [] OTHER -> Nothing)
      [] focus.kind = "ChatHistorySelection" ->
            (CASE key = "Left" -> Some(Event("ChatFocusChange", Focus("Channels", 0)))
               [] key \in {"s", "Esc"} -> Some(Event("ChatFocusChange", Focus("ChatHistory", 0)))
               [] key = "r" -> Some(Event("Reply", 0))
               [] key = "q" -> Some(Event("Exit", 0))
               [] key = "x" -> Some(Event("Logout", 0))
               [] key \in {"a", " ", "Enter"} ->
                    Some(Event("ChatFocusChange", Focus("ChatInput", 0)))
               [] OTHER -> Nothing)
      [] focus.kind = "ChatInput" ->
            (CASE key \in {"Up", "Esc"} -> Some(Event("ChatFocusChange", Focus("ChatHistory", 0)))
               [] key = "Enter" -> Some(Event("MessageSend", 0))
               [] key \in {"a", " ", "q", "x", "s", "r"} -> Some(Event("InputChar", key))
               [] OTHER -> Nothing)
      [] OTHER -> Nothing

\* The keys of an input field of the form; `back` and `forth` are the
\* fields before and after it.
InputKey(key, back, forth) ==
    CASE key = "Up" /\ back # Nothing -> Some(Event("LoginFocusChange", Unwrap(back)))
      [] key \in {"Down", "Enter"} -> Some(Event("LoginFocusChange", forth))
      [] key = "CtrlLeft" -> Some(Event("InputLeftTab", 0))
      [] key = "Left" -> Some(Event("InputLeft", 0))
      [] key = "CtrlRight" -> Some(Event("InputRightTab", 0))
      [] key = "Right" -> Some(Event("InputRight", 0))
      [] key = "Backspace" -> Some(Event("InputDelete", 0))
      [] key = "Esc" -> Some(Event("LoginFocusChange", Focus("Nothing", 0)))
      [] key \in {"a", " ", "q", "x", "s", "r"} -> Some(Event("InputChar", key))
      [] OTHER -> Nothing

\* handle_login_key_event; Enter on the button is Login.
handle_login_key_event(key, focus) ==
    CASE focus.kind = "UsernameInput" ->
            InputKey(key, Nothing, Focus("PasswordInput", focus.i))
      [] focus.kind = "PasswordInput" ->
            InputKey(key, Some(Focus("UsernameInput", focus.i)),
                     Focus("ServerAddressInput", focus.i))
      [] focus.kind = "ServerAddressInput" ->
            InputKey(key, Some(Focus("PasswordInput", focus.i)), Focus("LoginButton", 0))
      [] focus.kind = "LoginButton" ->
            (CASE key = "q" -> Some(Event("Exit", 0))
               [] key = "Up" -> Some(Event("LoginFocusChange", Focus("ServerAddressInput", 0)))
               [] key = "Esc" -> Some(Event("LoginFocusChange", Focus("Nothing", 0)))
               [] key = "Enter" -> Some(Event("Login", 0))
               [] OTHER -> Nothing)
      [] focus.kind = "Nothing" ->
            (CASE key = "q" -> Some(Event("Exit", 0))
               [] key \in {"a", " ", "x", "s", "r", "Up", "Down", "Left", "Right", "Enter"} ->
                    Some(Event("LoginFocusChange", Focus("UsernameInput", 0)))
               [] OTHER -> Nothing)
      [] OTHER -> Nothing

\* State::process_event
process_event(key, cs, login, chat) ==
    IF cs = "Chat" THEN handle_chat_key_event(key, chat.focus)
    ELSE handle_login_key_event(key, login.focus)

(***************************************************************************)
(* tui/screens/mod.rs: State::on_tick                                      *)
(***************************************************************************)
on_tick_keeps_reconnect_stamp(cs, chat, c) ==
    IF cs # "Chat" THEN [events |-> <<>>, chat |-> chat, c |-> c]
    ELSE
    LET connection_elapsed == c.time_since_last_transmit
        typing == IF chat.is_typing /\ chat.time_since_last_typing > TYPING_EXPIRY_SECS
                  THEN <<Event("TypingExpired", 0)>> ELSE <<>>
        unhealthy == IF connection_elapsed > UNHEALTHY_SECS /\ c.connection_status = "Connected"
                     THEN <<Event("PossiblyUnhealthyConnection", 0)>> ELSE <<>>
        retry == /\ \/ connection_elapsed > RECONNECT_QUIET_SECS
                    \/ c.connection_status = "Disconnected"
                    \/ c.connection_status = "Reconnecting"
                 /\ c.time_since_last_reconnect > RECONNECT_BACKOFF_SECS
        idle == /\ IsSome(chat.time_since_last_focused)
                /\ Unwrap(chat.time_since_last_focused) > USER_TIME_UNTIL_IDLE
    IN  [events |-> typing \o unhealthy
                    \o (IF retry THEN <<Event("Reconnect", 0)>> ELSE <<>>)
                    \o (IF idle THEN <<Event("IdleUser", 0)>> ELSE <<>>),
         chat |-> IF idle THEN [chat EXCEPT !.time_since_last_focused = Nothing] ELSE chat,
         c |-> c]

\* State::on_tick: the events it sends, and the chat state and client it leaves.
on_tick(cs, chat, c) ==
    IF cs # "Chat" THEN [events |-> <<>>, chat |-> chat, c |-> c]
    ELSE
    LET connection_elapsed == c.time_since_last_transmit
        typing == IF chat.is_typing /\ chat.time_since_last_typing > TYPING_EXPIRY_SECS
                  THEN <<Event("TypingExpired", 0)>> ELSE <<>>
        unhealthy == IF connection_elapsed > UNHEALTHY_SECS /\ c.connection_status = "Connected"
                     THEN <<Event("PossiblyUnhealthyConnection", 0)>> ELSE <<>>
        retry == /\ \/ connection_elapsed > RECONNECT_QUIET_SECS
                    \/ c.connection_status = "Disconnected"
                    \/ c.connection_status = "Reconnecting"
                 /\ c.time_since_last_reconnect > RECONNECT_BACKOFF_SECS
        idle == /\ IsSome(chat.time_since_last_focused)
                /\ Unwrap(chat.time_since_last_focused) > USER_TIME_UNTIL_IDLE
    IN  [events |-> typing \o unhealthy
                    \o (IF retry THEN <<Event("Reconnect", 0)>> ELSE <<>>)
                    \o (IF idle THEN <<Event("IdleUser", 0)>> ELSE <<>>),
         chat |-> IF idle THEN [chat EXCEPT !.time_since_last_focused = Nothing] ELSE chat,
         c |-> IF retry THEN [c EXCEPT !.time_since_last_reconnect = 0] ELSE c]

\* `secs` more seconds on every timestamp of a ChatState and of the Client.
ChatOlder(chat, secs) ==
    [chat EXCEPT !.time_since_last_typing = Min(@ + secs, TypingCap),
                 !.time_since_last_focused =
                    IF IsSome(@) THEN Some(Min(Unwrap(@) + secs, IdleCap)) ELSE @]

ClientOlder(c, secs) ==
    [c EXCEPT !.time_since_last_transmit = Min(@ + secs, TransmitCap),
              !.time_since_last_reconnect = Min(@ + secs, ReconnectCap)]

(***************************************************************************)
(* The program: State (current_state, state_map, should_quit), the Client, *)
(* and the update bus the receiving task and the tick driver send on.      *)
(* Errors are also logged; the Log events this puts on the bus change      *)
(* nothing below and are left out.                                         *)
(*                                                                         *)
(* The main loop takes a tick only when no event is ready, and the run of  *)
(* a handler takes no time: the clock moves in Tick alone.                 *)
(***************************************************************************)
VARIABLES current_state,   \* "Login" or "Chat": the variant of State.current_state
          login_state,     \* its LoginState, in Login mode
          chat_state,      \* its ChatState, in Chat mode
          state_map,       \* the cached states
          should_quit,
          panicked,        \* the main loop has ended in a panic
          client,
          bus,             \* the events sent and not yet received by the main loop
          last,            \* history: what the last step was and did
          emitted_ago,     \* history: seconds since the tick driver last sent Reconnect
          idle_typing_frames, \* history: Typing frames written since the last terminal event
          logged_out,      \* history: the ChatState the last Logout found
          loop,            \* the main loop: waiting in select!, or sending in on_tick
          owed,            \* history: SendMessage frames written and not answered yet
          wire             \* the bytes: the payload buffers of two receiving tasks
                           \* and what they decoded, the packet send_message built

vars == <<current_state, login_state, chat_state, state_map, should_quit, panicked,
          client, bus, last, emitted_ago, idle_typing_frames, logged_out, loop, owed, wire>>

\* The main loop at its select!. `waiting`: no update was ready when select!
\* was entered, so its sleep is running. `sending`: the events a call of
\* on_tick has yet to send, the bus being full.
AtSelect(waiting, sending) == [waiting |-> waiting, sending |-> sending]

\* No byte read by either task, none written.
NoBytes == [payload_buffer |-> <<ZeroedBuffer, ZeroedBuffer>>,
            read |-> <<[result |-> "none"], [result |-> "none"]>>,
            frame |-> <<>>,
            payload |-> Nothing, packet |-> <<>>, returned |-> [result |-> "none"]]

NoFrame == [io |-> "no", magic |-> "", version |-> 0, ptype |-> 0, length |-> U32(0, 0),
            payload |-> [b0 |-> 0, utf8 |-> TRUE, arg |-> 0]]

Step(action, type) ==
    [action |-> action, type |-> type, mode |-> "Login", ok |-> TRUE, out |-> <<>>,
     emitted |-> <<>>, dialed |-> "no", err |-> "none", refused |-> <<>>,
     status |-> "Disconnected", acked |-> {},
     oldest |-> 0, frame |-> NoFrame, gap |-> 0]

Username == <<"a">>
Password == <<"a">>
Address == <<"a">>

\* tui::run: State::new over the LoginState of the command line, Client::new.
\* The form is taken up with its focus on the button, where Enter, pressed
\* once for each field, brings it.
Start(usernames) ==
    /\ current_state = "Login"
    /\ \E enable_tls \in BOOLEAN, username \in usernames :
            login_state = [username_input |-> username, password_input |-> Password,
                           server_address_input |-> Address,
                           server_address |-> Nothing,
                           focus |-> Focus("LoginButton", 0),
                           input_status |-> "AllFine", enable_tls |-> enable_tls]
    /\ chat_state = Nothing
    /\ state_map = [Login |-> Nothing, Chat |-> <<>>]
    /\ should_quit = FALSE
    /\ panicked = FALSE
    /\ client = NewClient
    /\ bus = <<>>
    /\ last = Step("Init", "")
    /\ emitted_ago = ReconnectCap
    /\ idle_typing_frames = 0
    /\ logged_out = Nothing
    /\ loop = AtSelect(TRUE, <<>>)
    /\ owed = 0
    /\ wire = NoBytes

Init == Start({Username})

Running == ~should_quit /\ ~panicked

\* The main loop is not inside on_tick, awaiting room on the bus.
Free == loop.sending = <<>>

\* The local ids of the messages that are Sending.
SendingLocals(cs, chat) ==
    IF cs # "Chat" THEN {}
    ELSE UNION {{chat.chat_history[k][i].local :
                    i \in {j \in DOMAIN chat.chat_history[k] :
                                chat.chat_history[k][j].status = "Sending"}} :
                k \in DOMAIN chat.chat_history}

IsTypingFrame(frame) == frame.type = "Typing"
IsSendMessageFrame(frame) == frame.type = "SendMessage"
SendMessageFrames(out) == Len(SelectSeq(out, IsSendMessageFrame))
TypingFrames(out) == Len(SelectSeq(out, IsTypingFrame))

\* The main loop runs handle_event on `event`; `bus1` is the bus it leaves.
Handle(action, event, env, bus1) ==
    \E h \in {handle_event(Handler(current_state, login_state, chat_state, state_map,
                                   should_quit, client), event, env)} :
        /\ current_state' = h.current_state
        /\ login_state' = h.login_state
        /\ chat_state' = h.chat_state
        /\ state_map' = h.state_map
        /\ should_quit' = h.should_quit
        /\ panicked' = h.panicked
        /\ client' = h.c
        /\ bus' = bus1
        /\ last' = [Step(action, event.type) EXCEPT
                        !.mode = current_state, !.ok = h.ok, !.out = h.out,
                        !.dialed = h.dialed, !.err = h.err, !.refused = h.refused,
                        !.status = client.connection_status,
                        !.acked = SendingLocals(current_state, chat_state)
                                    \ SendingLocals(h.current_state, h.chat_state),
                        !.oldest = IF current_state = "Chat"
                                      /\ chat_state.waiting_message_acks_id # <<>>
                                   THEN Head(chat_state.waiting_message_acks_id) ELSE 0]
        /\ emitted_ago' = emitted_ago
        /\ idle_typing_frames' =
                IF action = "Key" THEN 0
                ELSE Min(idle_typing_frames + TypingFrames(h.out), 2)
        /\ logged_out' =
                IF current_state = "Chat" /\ event.type = "Logout" /\ h.current_state = "Login"
                THEN Some(chat_state) ELSE logged_out
        /\ loop' = AtSelect(bus1 = <<>>, <<>>)
        /\ owed' = Min((IF h.c.write_stream = None \/ h.dialed # "no" THEN 0 ELSE owed)
                            + SendMessageFrames(h.out), MaxSends)
        /\ wire' = wire

\* What a handler meets outside the program: the write that fails, the order
\* the HashMap of histories is walked in, the answer to a dial, and what the
\* address input resolves to.
Orders == {o \in [1..MaxChannels -> ChannelIds] : \A i, j \in 1..MaxChannels : o[i] = o[j] => i = j}
AnOrder == [i \in 1..MaxChannels |-> i]
Env(wfail, order, dial, resolve) ==
    [wfail |-> wfail, order |-> order, dial |-> dial, resolve |-> resolve]
\* The outcomes a specification lets a handler meet.
Envs(wfails, orders, dials, resolves) ==
    [wfails |-> wfails, orders |-> orders, dials |-> dials, resolves |-> resolves]

MaxFieldLen(kind) == IF kind = "ServerAddressInput" THEN MaxAddressLen ELSE MaxNameLen

\* The bounds of the model, as guards on what the user does.
KeyAllowed(event) ==
    CASE event.type = "MessageSend" -> chat_state.incrementing_ack_id < ACK_ID_SEED + MaxSends
      [] event.type = "InputChar" /\ current_state = "Login" ->
            login_state.focus.kind \in InputKinds =>
                Len(login_state[InputField(login_state.focus.kind)])
                    < MaxFieldLen(login_state.focus.kind)
      [] event.type = "InputChar" /\ current_state = "Chat" ->
            /\ IsSome(ActiveChannel(chat_state))
            /\ Unwrap(ActiveChannel(chat_state)).id \in DOMAIN chat_state.chat_inputs
            /\ Len(chat_state.chat_inputs[Unwrap(ActiveChannel(chat_state)).id]) < MaxInputLen
      [] OTHER -> TRUE

\* The main loop receives an update from the bus.
HandleBus(envs) ==
    /\ Running /\ Free
    /\ bus # <<>>
    /\ \E w \in envs.wfails, o \in envs.orders, d \in envs.dials, r \in envs.resolves :
            Handle("Bus", Head(bus), Env(w, o, d, r), Tail(bus))

\* The main loop receives a terminal event.
Key(keys, envs) ==
    /\ Running /\ Free
    /\ \E key \in keys :
        LET event == process_event(key, current_state, login_state, chat_state)
        IN  /\ IsSome(event)
            /\ KeyAllowed(Unwrap(event))
            /\ \E w \in envs.wfails, o \in envs.orders, d \in envs.dials, r \in envs.resolves :
                    Handle("Key", Unwrap(event), Env(w, o, d, r), bus)

\* The same, of a user who presses `keys` in the one mode only.
KeyAt(mode, keys, envs) == current_state = mode /\ Key(keys, envs)

\* The main loop runs on_tick, `secs` seconds after the last time. Each event
\* is sent with Sender::send, which waits while the bus is full; the stamp of
\* a Reconnect is updated before it is sent and the focus stamp is cleared
\* after IdleUser, the last, is.
OnTick(secs) ==
    \E t \in {on_tick(current_state,
                       IF current_state = "Chat" THEN ChatOlder(chat_state, secs)
                       ELSE chat_state,
                       ClientOlder(client, secs))} :
       LET room == IF Len(bus) < EVENT_BUS_CAPACITY THEN EVENT_BUS_CAPACITY - Len(bus) ELSE 0
           fit == Min(Len(t.events), room)
           held == SubSeq(t.events, fit + 1, Len(t.events))
           sent == \E i \in 1..fit : t.events[i].type = "Reconnect"
           stamped == \E i \in 1..Min(fit + 1, Len(t.events)) : t.events[i].type = "Reconnect"
       IN  /\ chat_state' = IF held = <<>> THEN t.chat
                             ELSE ChatOlder(chat_state, secs)
           /\ client' = IF stamped \/ held = <<>> THEN t.c ELSE ClientOlder(client, secs)
           /\ bus' = bus \o SubSeq(t.events, 1, fit)
           /\ loop' = AtSelect(bus = <<>> /\ t.events = <<>>, held)
           /\ state_map' = [state_map EXCEPT !.Chat =
                                [k \in DOMAIN @ |-> ChatOlder(@[k], secs)]]
           /\ last' = [Step("Tick", "") EXCEPT !.mode = current_state,
                                              !.emitted = t.events,
                                              !.status = client.connection_status,
                                              !.gap = Min(emitted_ago + secs, ReconnectCap)]
           /\ emitted_ago' = IF sent THEN 0 ELSE Min(emitted_ago + secs, ReconnectCap)
           /\ logged_out' = IF IsSome(logged_out) THEN Some(ChatOlder(Unwrap(logged_out), secs))
                            ELSE logged_out
           /\ UNCHANGED <<current_state, login_state, should_quit, panicked,
                          idle_typing_frames, owed, wire>>

\* Neither an update nor a terminal event is ready: `secs` seconds later the
\* sleep of select! is over and the main loop runs on_tick.
Tick(secs) ==
    /\ Running /\ Free
    /\ loop.waiting
    /\ bus = <<>>
    /\ OnTick(secs)

\* select! polls its branches in a random order each time the loop is
\* polled: when updates arrive while it waits and its sleep is over before it
\* is polled again, the sleep branch may be the one it takes.
TickRace(secs) ==
    /\ Running /\ Free
    /\ loop.waiting
    /\ OnTick(secs)

Builds == {"debug", "release"}

\* The bounds of the model, as guards on what the server sends.
FrameAllowed(frame) ==
    frame.ptype = 5 =>
        /\ current_state = "Chat"
        /\ chat_state.channels = <<>>
        /\ \A i \in DOMAIN bus : bus[i].type # "Channels"

\* The receiving task reads one frame, or meets the end of the stream; it is
\* let run while fewer than `room` events wait on the bus.
Receive(frames, room) ==
    /\ Running
    /\ client.recv_handle = "running"
    /\ Len(bus) < room
    /\ \E i \in DOMAIN frames, build \in Builds :
        LET frame == frames[i]
            r == receiving_task(frame, build)
        IN  /\ FrameAllowed(frame)
            /\ bus' = bus \o r.events
            /\ client' = [client EXCEPT !.recv_handle = r.handle,
                                        !.time_since_last_transmit = IF r.read THEN 0 ELSE @]
            /\ last' = [Step("Receive", "") EXCEPT !.mode = current_state,
                                                  !.emitted = r.events,
                                                  !.status = client.connection_status,
                                                  !.frame = frame]
            /\ owed' = CASE r.handle # "running" -> 0
                          [] r.read /\ frame.ptype = 2 /\ owed > 0 -> owed - 1
                          [] OTHER -> owed
    /\ UNCHANGED <<current_state, login_state, chat_state, state_map, should_quit, panicked,
                   emitted_ago, idle_typing_frames, logged_out, loop, wire>>

(***************************************************************************)
(* Frames the server sends.                                                *)
(***************************************************************************)
ServerFrame(ptype, b0, arg) ==
    [io |-> "no", magic |-> "CHTG", version |-> 1, ptype |-> ptype, length |-> U32(0, 16),
     payload |-> [b0 |-> b0, utf8 |-> TRUE, arg |-> arg]]

\* The stream ends, or fails, before another header is read.
StreamEnd == [ServerFrame(0, 0, 0) EXCEPT !.io = "header"]

HistoryMessage(message_id, channel_id, ts_ok) ==
    [message_id |-> message_id, reply_id |-> 0, channel_id |-> channel_id, ts_ok |-> ts_ok]

\* What the server may send, each a sequence of frames.
ServerIdSeq == [i \in 1..MaxServerId + 1 |-> IF i <= MaxServerId THEN i ELSE ACK_ID_SEED]
LoginAccepted == <<ServerFrame(1, 0, 0)>>
LoginRefused == <<ServerFrame(1, 1, "Incorrect username or password."),
                  ServerFrame(1, 1, "Banned")>>
ChannelReplies == <<ServerFrame(5, 0, [i \in 1..MaxChannels |-> i])>>
SendMessageAcks == [i \in DOMAIN ServerIdSeq |-> ServerFrame(2, 0, ServerIdSeq[i])]
Histories ==
    [i \in DOMAIN ServerIdSeq |->
        ServerFrame(6, 0, <<HistoryMessage(ServerIdSeq[i], 1, TRUE)>>)]
    \o <<ServerFrame(6, 2, <<HistoryMessage(1, 1, TRUE), HistoryMessage(1, 1, TRUE)>>),
         ServerFrame(6, 0, <<HistoryMessage(ACK_ID_SEED, MaxChannels, TRUE),
                             HistoryMessage(1, 1, FALSE)>>)>>

ChannelListReplies == <<ServerFrame(4, 0, [i \in 1..MaxChannels |-> i])>>
UserStatus(id, status) == [id |-> id, status |-> status]
UserStatusesReplies == <<ServerFrame(7, 0, <<UserStatus(1, "Online")>>)>>
UsersReplies == <<ServerFrame(8, 0, <<UserStatus(1, "Idle")>>)>>
Ping == ServerFrame(0, 0, 0)
Pong == ServerFrame(0, 1, 0)
\* A frame as long as the payload buffer allows.
Longest == [Ping EXCEPT !.length = U32(0, MAX_MESSAGE_LENGTH - HEADER_LENGTH)]
\* Replies with the Notification status: to a message sent, to a channel
\* request, and the one the protocol has, a History push.
Notifications ==
    <<ServerFrame(2, 2, 1), ServerFrame(4, 2, <<>>),
      ServerFrame(6, 2, <<HistoryMessage(1, 1, TRUE)>>)>>
\* Frames that read_message does not accept.
Undecodable ==
    <<[Ping EXCEPT !.magic = "CHTX"],
      [Ping EXCEPT !.version = 2],
      ServerFrame(12, 0, 0),
      ServerFrame(129, 0, 0),
      [Ping EXCEPT !.length = U32(0, MAX_MESSAGE_LENGTH - HEADER_LENGTH + 1)],
      [Ping EXCEPT !.length = U32(Half - 1, Half - HEADER_LENGTH)],
      [Ping EXCEPT !.length = U32(Half - 1, Half - 1)],
      [Ping EXCEPT !.io = "payload"],
      ServerFrame(0, 2, 0),
      ServerFrame(2, 3, 0),
      [ServerFrame(2, 1, "no") EXCEPT !.payload.utf8 = FALSE]>>

\* Everything above.
ServerFrames ==
    LoginAccepted \o LoginRefused \o ChannelReplies \o SendMessageAcks \o Histories
        \o ChannelListReplies \o UserStatusesReplies \o UsersReplies
        \o <<StreamEnd, Ping, Pong, Longest>> \o Notifications \o Undecodable

(***************************************************************************)
(* The whole program: any key, any frame, any outcome of a dial, a lookup  *)
(* or a write, and a main loop that may be held for any time between two   *)
(* ticks. The specifications below each take a part of it.                 *)
(***************************************************************************)
EnvsAny == Envs(0..MaxChannels, Orders, DialOutcomes, Resolutions)

HandleBusAny == HandleBus(EnvsAny)
KeyAny == Key(Keys, EnvsAny)
TickAny == \E secs \in 1..TransmitCap : Tick(secs)
ReceiveAny == Receive(ServerFrames, EVENT_BUS_CAPACITY)

Next == HandleBusAny \/ KeyAny \/ TickAny \/ ReceiveAny

Spec == Init /\ [][Next]_vars

(***************************************************************************)
(* Messages going both ways in one session: a network that may refuse a    *)
(* dial or fail the first write of a handler, and a stream that may end.   *)
(***************************************************************************)
BusRoomMsg == 1
EnvsMsg == Envs({0, 1}, Orders, {"ok", "refused"}, {"dns_ok"})
KeysMsg == {"Enter", "a"}

HandleBusMsg == HandleBus(EnvsMsg)
KeyMsg == Key(KeysMsg, EnvsMsg)
ReceiveMsg ==
    Receive(LoginAccepted \o <<StreamEnd>> \o ChannelReplies \o SendMessageAcks \o Histories,
            BusRoomMsg)

NextMsg == HandleBusMsg \/ KeyMsg \/ ReceiveMsg

SpecMsg == Init /\ [][NextMsg]_vars

\* The message ids of the messages that are Sending.
SendingIds(chat) ==
    UNION {{chat.chat_history[k][i].message_id :
                i \in {j \in DOMAIN chat.chat_history[k] :
                            chat.chat_history[k][j].status = "Sending"}} :
           k \in DOMAIN chat.chat_history}

\* C1: in Chat mode the ids of the history messages that are Sending are
\* exactly the ids held in the pending-ack queue.
C1_SendingIsPending ==
    current_state = "Chat" =>
        SendingIds(chat_state) = SeqRange(chat_state.waiting_message_acks_id)

\* C2: no channel's history holds two messages with the same message_id.
C2_NoDuplicateIds ==
    current_state = "Chat" =>
        \A k \in DOMAIN chat_state.chat_history :
            \A i, j \in DOMAIN chat_state.chat_history[k] :
                chat_state.chat_history[k][i].message_id
                    = chat_state.chat_history[k][j].message_id => i = j

\* C3: a MessageSendAck handled while messages are pending marks the oldest
\* pending message, and no other, as sent.
C3_AckMarksOldest ==
    (last.action = "Bus" /\ last.type = "MessageSendAck" /\ last.mode = "Chat"
        /\ last.oldest # 0)
    => last.acked = {last.oldest}

\* Every id of the pending-ack queue is the id of a message: MessageSend
\* pushes both, and an ack changes the id of a message that carries the id it
\* took off the queue. A MessageSendAck handled with ids pending therefore
\* finds a message and leaves the queue one id shorter.
AckFindsMessage ==
    [][(last'.type = "MessageSendAck" /\ last'.mode = "Chat"
            /\ current_state = "Chat" /\ chat_state.waiting_message_acks_id # <<>>)
        => Len(chat_state'.waiting_message_acks_id)
                = Len(chat_state.waiting_message_acks_id) - 1]_vars

(***************************************************************************)
(* Connections: every answer to a dial and to the address lookup, logins   *)
(* accepted and refused, logout, the stream ending, and the tick driver    *)
(* asking for reconnects.                                                  *)
(***************************************************************************)
BusRoomConn == 1
EnvsConn == Envs({0, 1}, {AnOrder}, {"ok", "refused", "tls_handshake"}, {"dns_ok", "dns_err"})
KeysConn == {"Enter", "x"}

HandleBusConn == HandleBus(EnvsConn)
KeyConn == Key(KeysConn, EnvsConn)
\* connect and lookup_host are awaited in the main loop: it may be held for
\* seconds before the next tick.
TickConn == Tick(RECONNECT_BACKOFF_SECS + 1)
ReceiveConn == Receive(LoginAccepted \o LoginRefused \o <<StreamEnd>>, BusRoomConn)

NextConn == HandleBusConn \/ KeyConn \/ TickConn \/ ReceiveConn

SpecConn == Init /\ [][NextConn]_vars

\* The receiving tasks that have neither been aborted nor exited.
RunningTasks(c) == (IF c.recv_handle = "running" THEN 1 ELSE 0) + c.orphan_tasks

\* C4: at most one receiving task is running (the client's writer is one
\* Option, so at most one writer half is held), and no connect call dialed
\* the network while a writer was held.
C4_OneConnection ==
    /\ RunningTasks(client) <= 1
    /\ client.recv_handle = "running" => client.write_stream # None
    /\ last.dialed # "held"

\* C4 happens: Login is handled while a writer is held and its task runs;
\* connect refuses without dialing and the handler returns Ok.
C4_LoginWhileConnected ==
    /\ last.action = "Key" /\ last.type = "Login" /\ last.ok
    /\ last.status = "Connected" /\ last.dialed = "no"
    /\ client.write_stream # None
    /\ client.recv_handle = "running"

\* The step is a Login handled in Login mode whose call of connect dialed or
\* returned an error.
LoginConnects ==
    /\ last'.type = "Login" /\ last'.mode = "Login"
    /\ last'.err # "none" \/ last'.dialed # "no"

\* C13: connect called while a writer is held returns an error without
\* dialing and leaves the writer, the receiver handle, the connection status
\* and both timestamps as they were.
C13_ConnectWhileHeld ==
    [][(client.write_stream # None /\ LoginConnects)
        => /\ last'.err = "already_connected"
           /\ last'.dialed = "no"
           /\ client' = client]_vars

\* C13 happens: connect has refused with a writer held.
C13_AlreadyConnected ==
    /\ last.type = "Login" /\ last.err = "already_connected"
    /\ client.write_stream # None

(***************************************************************************)
(* The tick driver, second by second: the main loop is never held, so a    *)
(* tick follows the last step by one second at most.                       *)
(***************************************************************************)
BusRoomTick == 1
EnvsTick == Envs({0, 1}, {AnOrder}, {"ok", "refused"}, {"dns_ok"})
KeysTick == {"Enter", " "}

HandleBusTick == HandleBus(EnvsTick)
KeyTick == Key(KeysTick, EnvsTick)
TickTick == Tick(1)
ReceiveTick == Receive(LoginAccepted \o ChannelReplies \o <<StreamEnd>>, BusRoomTick)

NextTick == HandleBusTick \/ KeyTick \/ TickTick \/ ReceiveTick

SpecTick == Init /\ [][NextTick]_vars

HasEvent(events, type) == \E i \in DOMAIN events : events[i].type = type

C6_ReconnectsApart ==
    (last.action = "Tick" /\ HasEvent(last.emitted, "Reconnect")) =>
        last.gap > RECONNECT_BACKOFF_SECS

\* C6 happens: a tick asks for Reconnect while the client is Reconnecting,
\* the status an earlier Reconnect left.
C6_ReconnectAskedAgain ==
    /\ last.action = "Tick" /\ HasEvent(last.emitted, "Reconnect")
    /\ last.status = "Reconnecting"
    /\ last.gap > RECONNECT_BACKOFF_SECS

\* C10: a tick asks for TypingExpired exactly when the user is typing and last
\* typed more than 2 s ago; a TypingExpired handler that returns Ok with a
\* channel active has written one Typing(false) frame for it and nothing
\* else, and cleared is_typing; and between two terminal events at most one
\* Typing frame is written.
C10_TypingStopsOnce ==
    /\ idle_typing_frames <= 1
    /\ (last.action = "Tick" /\ last.mode = "Chat") =>
            (HasEvent(last.emitted, "TypingExpired")
                <=> (chat_state.is_typing
                        /\ chat_state.time_since_last_typing > TYPING_EXPIRY_SECS))
    /\ (last.action = "Bus" /\ last.type = "TypingExpired" /\ last.mode = "Chat") =>
            /\ ~chat_state.is_typing
            /\ (last.ok /\ IsSome(ActiveChannel(chat_state))) =>
                    last.out = <<Frame("Typing", Unwrap(ActiveChannel(chat_state)).id, FALSE)>>

\* C10 happens: the one Typing(false) frame is written and a later tick asks
\* for nothing more.
C10_IdleAfterTypingStopped ==
    /\ idle_typing_frames = 1
    /\ last.action = "Tick" /\ last.mode = "Chat"
    /\ ~chat_state.is_typing
    /\ ~HasEvent(last.emitted, "TypingExpired")

(***************************************************************************)
(* Reconnecting for as long as it takes. The main loop is fair to its      *)
(* branches: an update that waits on the bus is handled, and a tick is     *)
(* taken when nothing else is ready. The server is one that accepts        *)
(* connections again: of the Reconnect events handled, not all meet a      *)
(* refused dial or a failing write (strong fairness of ReconnectAccepted). *)
(***************************************************************************)
BusRoomLive == 1
EnvsLive == Envs({0, 1}, {AnOrder}, {"ok", "refused"}, {"dns_ok"})
EnvsAccepting == Envs({0}, {AnOrder}, {"ok"}, {"dns_ok"})
KeysLive == {"Enter"}

HandleBusLive == HandleBus(EnvsLive)
KeyLive == Key(KeysLive, EnvsLive)
TickLive == Tick(RECONNECT_BACKOFF_SECS + 1)
ReceiveLive == Receive(LoginAccepted \o <<StreamEnd>>, BusRoomLive)

\* A Reconnect event is handled while the server accepts the dial and the login.
ReconnectAccepted ==
    /\ current_state = "Chat"
    /\ bus # <<>>
    /\ Head(bus).type = "Reconnect"
    /\ HandleBus(EnvsAccepting)

NextLive == HandleBusLive \/ KeyLive \/ TickLive \/ ReceiveLive

SpecLive ==
    /\ Init /\ [][NextLive]_vars
    /\ WF_vars(HandleBusLive) /\ WF_vars(TickLive)
    /\ SF_vars(ReconnectAccepted)

\* The cases in which on_tick asks for a reconnect once the back-off is over.
NeedsReconnect ==
    /\ Running /\ current_state = "Chat"
    /\ \/ client.connection_status \in {"Disconnected", "Reconnecting"}
       \/ client.time_since_last_transmit > RECONNECT_QUIET_SECS

LostConnection ==
    /\ Running /\ current_state = "Chat"
    /\ client.connection_status \in {"Disconnected", "Reconnecting"}

\* C7: for as long as the client in Chat mode is Disconnected, Reconnecting
\* or quiet for more than 15 s, another tick asks for Reconnect, whatever the
\* number of attempts before; and with a server that accepts connections
\* again, a Disconnected or Reconnecting client becomes Connected.
C7_ReconnectsUntilConnected ==
    /\ NeedsReconnect ~>
            \/ ~NeedsReconnect
            \/ last.action = "Tick" /\ HasEvent(last.emitted, "Reconnect")
    /\ LostConnection ~>
            \/ client.connection_status = "Connected"
            \/ ~(Running /\ current_state = "Chat")

\* C7 happens: after an attempt that failed, which left the client
\* Reconnecting, a later Reconnect is handled and connects.
C7_ConnectedAfterRetry ==
    /\ last.action = "Bus" /\ last.type = "Reconnect" /\ last.mode = "Chat" /\ last.ok
    /\ last.status = "Reconnecting"
    /\ client.connection_status = "Connected"
    /\ chat_state.server_connection_status = "Connected"

(***************************************************************************)
(* The receiving task against a server that sends anything: well-formed    *)
(* frames, replies the protocol forbids, and frames that do not decode.    *)
(***************************************************************************)
BusRoomRecv == 2

EnvsRecv == Envs({0}, {AnOrder}, {"ok"}, {"dns_ok"})
KeysRecv == {"Enter"}

HandleBusRecv == HandleBus(EnvsRecv)
KeyRecv == Key(KeysRecv, EnvsRecv)
ReceiveRecv ==
    Receive(LoginAccepted \o LoginRefused \o <<StreamEnd, Ping, Pong, Longest>>
                \o Notifications \o Undecodable,
            BusRoomRecv)

NextRecv == HandleBusRecv \/ KeyRecv \/ ReceiveRecv

SpecRecv == Init /\ [][NextRecv]_vars

\* L + 10 > 16384 for the header length L, in the integers.
Oversize(length) ==
    length.hi > 0 \/ length.lo + HEADER_LENGTH > MAX_MESSAGE_LENGTH

\* The frame passes the header checks and its payload arrives.
Framed(frame) ==
    /\ frame.io = "no" /\ frame.magic = "CHTG" /\ frame.version = 1
    /\ frame.ptype \in 0..11
    /\ ~Oversize(frame.length)

\* The payload of a framed frame does not decode.
Malformed(frame) ==
    \/ frame.ptype = 0 /\ frame.payload.b0 \notin {0, 1}
    \/ frame.ptype \in 1..9 /\ frame.payload.b0 \notin {0, 1, 2}
    \/ frame.ptype \in 1..9 /\ frame.payload.b0 = 1 /\ ~frame.payload.utf8

\* C8: a frame that meets an I/O error or does not decode makes the receiving
\* task send exactly one Disconnected event and exit.
C8_ReadFailureDisconnects ==
    (last.action = "Receive" /\ (~Framed(last.frame) \/ Malformed(last.frame))) =>
        /\ Len(last.emitted) = 1
        /\ last.emitted[1].type = "Disconnected"
        /\ client.recv_handle = "exited"

\* A Pong, or a reply other than History with the Notification status.
Forbidden(frame) ==
    /\ Framed(frame)
    /\ \/ frame.ptype = 0 /\ frame.payload.b0 = 1
       \/ frame.ptype \in (1..9) \ {6} /\ frame.payload.b0 = 2

\* C9, as stated: a forbidden frame makes the receiving task send
\* Disconnected and stop reading.
C9_ForbiddenFrameDisconnects ==
    (last.action = "Receive" /\ Forbidden(last.frame)) =>
        /\ HasEvent(last.emitted, "Disconnected")
        /\ client.recv_handle # "running"

\* C9, amended: a forbidden frame is read like any other (the last-transmit
\* timestamp is updated), handle_message's error is logged, no event is sent
\* and the receiving task goes on reading.
C9_ForbiddenFrameSkipped ==
    (last.action = "Receive" /\ Forbidden(last.frame)) =>
        /\ last.emitted = <<>>
        /\ client.recv_handle = "running"
        /\ client.time_since_last_transmit = 0

\* C9 happens: a forbidden frame has been read.
C9_ForbiddenFrameRead ==
    /\ last.action = "Receive" /\ Forbidden(last.frame)
    /\ last.emitted = <<>>
    /\ client.recv_handle = "running"

\* C16: a frame whose header is otherwise valid and whose length L has
\* L + 10 > 16384, lengths of 2^32 - 10 and more included, is rejected by
\* read_message with an error: the receiving task reports Disconnected and
\* exits, it does not die in the addition or on the payload slice.
C16_OversizeRejected ==
    (/\ last.action = "Receive"
     /\ last.frame.io # "header"
     /\ Header_deserialize(last.frame) # "Err"
     /\ Oversize(last.frame.length)) =>
        /\ client.recv_handle = "exited"
        /\ last.emitted = <<Event("Disconnected", 0)>>

(***************************************************************************)
(* Logging out and in again: a user whose name was given with or without a *)
(* blank at its end sends messages, logs out and logs in, over a network   *)
(* that accepts every dial and write.                                      *)
(***************************************************************************)
BusRoomCache == 1
Usernames == {Username, Username \o <<" ">>}
EnvsCache == Envs({0}, {AnOrder}, {"ok"}, {"dns_ok"})
KeysCache == {"Enter", "a", "Esc", "x"}

InitCache == Start(Usernames)
HandleBusCache == HandleBus(EnvsCache)
KeyCache == KeyAt("Login", {"Enter"}, EnvsCache) \/ KeyAt("Chat", KeysCache, EnvsCache)
TickCache == Tick(RECONNECT_BACKOFF_SECS + 1)
ReceiveCache == Receive(LoginAccepted \o ChannelReplies, BusRoomCache)

NextCache == HandleBusCache \/ KeyCache \/ TickCache \/ ReceiveCache

SpecCache == InitCache /\ [][NextCache]_vars

IsRequest(frame) == frame.type \in {"ChannelList", "UserStatuses"}

\* LoginSuccess was handled in Login mode after a Logout, for the user name
\* and server address of the ChatState the Logout found.
LoggedInAgain ==
    /\ last.type = "LoginSuccess" /\ last.mode = "Login" /\ last.ok
    /\ IsSome(logged_out)
    /\ Unwrap(state_map.Login).username_input = Unwrap(logged_out).current_user.username
    /\ Unwrap(Unwrap(state_map.Login).server_address) = Unwrap(logged_out).server_address

\* C11: a Logout followed by a successful Login with the same user name and
\* server address restores the ChatState the Logout found, with its Sending
\* messages FailedToSend and its pending-ack queue empty and nothing else
\* changed, and sends no ChannelsList or UserStatuses request.
C11_LoginRestoresCached ==
    LoggedInAgain =>
        /\ current_state = "Chat"
        /\ chat_state = FailPending(Unwrap(logged_out))
        /\ SelectSeq(last.out, IsRequest) = <<>>

(***************************************************************************)
(* The update bus under load: the receiving task sends while the main loop *)
(* waits in select!, and the sleep branch may win the race.                *)
(***************************************************************************)
BusRoomBus == 1
EnvsBus == Envs({0}, {AnOrder}, {"ok"}, {"dns_ok"})
KeysBus == {"Enter", " "}

HandleBusBus == HandleBus(EnvsBus)
KeyBus == Key(KeysBus, EnvsBus)
TickBus == TickRace(TYPING_EXPIRY_SECS + 1)
\* The replies to the login and to the channel requests come one at a time;
\* health checks come as fast as the bus takes them.
ReceiveBus ==
    \/ Receive(LoginAccepted \o ChannelReplies, BusRoomBus)
    \/ Receive(<<Ping>>, EVENT_BUS_CAPACITY)

NextBus == HandleBusBus \/ KeyBus \/ TickBus \/ ReceiveBus

SpecBus == Init /\ [][NextBus]_vars

\* C12: no producer blocks forever on the update bus: the tick driver, which
\* runs inside the main loop, the only consumer of the bus, is never left
\* waiting in a send for room on the bus, which nothing but the main loop
\* could make.
C12_TickSendCompletes == loop.sending = <<>>

(***************************************************************************)
(* Sending while offline: the stream ends while replies of the server wait *)
(* on the bus and the user goes on typing.                                 *)
(***************************************************************************)
BusRoomOff == 2
EnvsOff == Envs({0}, {AnOrder}, {"ok"}, {"dns_ok"})
KeysOff == {"Enter", "a", "q"}

HandleBusOff == HandleBus(EnvsOff)
KeyOff == Key(KeysOff, EnvsOff)
TickOff == Tick(RECONNECT_BACKOFF_SECS + 1)
ReceiveOff ==
    Receive(LoginAccepted \o <<Head(LoginRefused)>> \o ChannelListReplies \o ChannelReplies
                \o UserStatusesReplies
                \o <<Ping, StreamEnd>>,
            BusRoomOff)

NextOff == HandleBusOff \/ KeyOff \/ TickOff \/ ReceiveOff

SpecOff == Init /\ [][NextOff]_vars

\* C14: an outbound send called while no writer is held returns an error,
\* writes nothing, and leaves the last-transmit timestamp and the connection
\* status as they were.
C14_SendWithoutWriter ==
    [][last'.refused # <<>>
        => /\ ~last'.ok
           /\ last'.out = <<>>
           /\ client'.write_stream = None
           /\ client'.time_since_last_transmit = client.time_since_last_transmit
           /\ client'.connection_status = client.connection_status]_vars

\* C14 happens: a chat message was to be sent with no writer held.
C14_MessageRefused ==
    /\ last.refused # <<>>
    /\ last.refused[1].type = "SendMessage"
    /\ client.write_stream = None
(***************************************************************************)
(* Two receiving tasks, each with its payload buffer, read LoginAck and    *)
(* Healthcheck frames: each its own frames first, then both the same one.  *)
(* A task that read_message fails leaves its loop; the task spawned by the *)
(* next connect starts from a zeroed buffer.                               *)
(***************************************************************************)
Bytes == {0, 1, 97}
WirePayloads == UNION {[1..n -> Bytes] : n \in 0..MaxPayload}

\* The frame the server writes for a payload: its header, then its bytes.
WireFrame(ptype, payload) ==
    MAGIC \o <<1, ptype>> \o to_be_bytes(<<0, Len(payload)>>) \o payload

\* Task `i` reads `frame`.
TaskReads(i, frame, build) ==
    LET r == read_message_bytes(frame, wire.payload_buffer[i], build)
    IN  [buffer |-> IF r.read.result = "Ok" THEN r.payload_buffer ELSE ZeroedBuffer,
         read |-> r.read]

ReadOne(i) ==
    \E ptype \in {0, 1}, payload \in WirePayloads, build \in Builds :
        LET t == TaskReads(i, WireFrame(ptype, payload), build)
        IN  wire' = [wire EXCEPT !.payload_buffer[i] = t.buffer,
                                 !.read[i] = t.read,
                                 !.frame = <<>>]

ReadBoth ==
    \E ptype \in {0, 1}, payload \in WirePayloads, build \in Builds :
        LET frame == WireFrame(ptype, payload)
        IN  wire' = [wire EXCEPT
                        !.payload_buffer = [i \in 1..2 |-> TaskReads(i, frame, build).buffer],
                        !.read = [i \in 1..2 |-> TaskReads(i, frame, build).read],
                        !.frame = frame]

NextDecode ==
    /\ ReadOne(1) \/ ReadOne(2) \/ ReadBoth
    /\ UNCHANGED <<current_state, login_state, chat_state, state_map, should_quit, panicked,
                   client, bus, last, emitted_ago, idle_typing_frames, logged_out, loop, owed>>

SpecDecode == Init /\ [][NextDecode]_vars

\* The payload of a frame, and the error text it carries: what follows the
\* status byte, up to the first NUL or to the end of the payload.
PayloadOf(frame) == SubSeq(frame, HEADER_LENGTH + 1, Len(frame))
ErrorText(payload) ==
    LET text == Tail(payload)
    IN  IF \E i \in DOMAIN text : text[i] = 0
        THEN SubSeq(text, 1, (CHOOSE i \in DOMAIN text :
                                text[i] = 0 /\ \A j \in 1..i - 1 : text[j] # 0) - 1)
        ELSE text

\* A LoginAck reply with a status byte.
IsReply(frame) ==
    /\ frame # <<>>
    /\ HeaderOf(frame).ptype = 1
    /\ PayloadOf(frame) # <<>>

\* C17: two tasks that read the same reply decode the same value whatever
\* their buffers held before, and the error text of a Failed reply ends with
\* the payload of the frame when no NUL ends it earlier.
C17_DecodeUsesFrameOnly ==
    IsReply(wire.frame) =>
        /\ wire.read[1] = wire.read[2]
        /\ Head(PayloadOf(wire.frame)) = 1 =>
                \A i \in 1..2 :
                    /\ wire.read[i].result = "Ok"
                    /\ wire.read[i].value.error_message
                            = Some(ErrorText(PayloadOf(wire.frame)))

(***************************************************************************)
(* The login form: a user who moves over the fields, types, deletes and    *)
(* moves the cursor, and does not log in.                                  *)
(***************************************************************************)
KeysForm == {"Up", "Down", "Esc", "a", "Backspace", "Left", "Right", "CtrlLeft", "CtrlRight"}
EnvsForm == Envs({0}, {AnOrder}, {"ok"}, {"dns_ok"})
KeyForm == Key(KeysForm, EnvsForm)
NextForm == KeyForm
SpecForm == Init /\ [][NextForm]_vars

\* C18: in Login mode the username holds at most 128 characters, the
\* password at most 1024 and the server address at most 63, whatever was
\* typed, deleted and moved.
C18_FieldsWithinLimits ==
    current_state = "Login" =>
        /\ Len(login_state.username_input) <= 128
        /\ Len(login_state.password_input) <= 1024
        /\ Len(login_state.server_address_input) <= 63

(***************************************************************************)
(* send_message builds the packet of a payload, and read_message is given  *)
(* the bytes of that packet.                                               *)
(***************************************************************************)
\* The 16 bit parts a u64 of the model is made of.
Parts == {0, 1, 32767, 32768, 65535}
Anchors == {Anchor(kind, <<top, 0, 0, low>>) :
                kind \in {"Timestamp", "MessageId"}, top \in Parts, low \in {0, 1, 65535}}
Histories17 ==
    {[type |-> "History", channel_id |-> U64(id), anchor |-> anchor, num_messages_back |-> n] :
        id \in ChannelIds, anchor \in Anchors, n \in {HISTORY_MESSAGES_BACK, -1, -128, 127}}
ClientPayloads ==
    Histories17
    \cup {[type |-> "Health", kind |-> kind] : kind \in {"Ping", "Pong"}}
    \cup {[type |-> "Login", username |-> <<97>>, password |-> <<97>>]}
    \cup {[type |-> type] : type \in {"ChannelsList", "UserStatuses"}}
    \cup {[type |-> "Channels", channel_ids |-> ids] : ids \in {<<>>, <<U64(1), U64(2)>>}}
    \cup {[type |-> "Users", user_ids |-> ids] : ids \in {<<>>, <<U64(1)>>}}
    \cup {[type |-> "SendMessage", channel_id |-> U64(1), reply_id |-> U64(0),
           media_ids |-> <<>>, message_text |-> <<97>>]}
    \cup {[type |-> "Media", media_id |-> U64(1)]}
    \cup {[type |-> "Typing", is_typing |-> t, channel_id |-> U64(1)] : t \in BOOLEAN}
    \cup {[type |-> "Status", status |-> b] : b \in 0..3}

SendPacket ==
    \E payload \in ClientPayloads :
        wire' = [wire EXCEPT !.payload = Some(payload),
                             !.packet = send_message(payload),
                             !.returned = [result |-> "none"]]

\* The packet is read back: read_message over its bytes, into a new buffer.
ReadBack ==
    /\ wire.packet # <<>>
    /\ \E build \in Builds :
        wire' = [wire EXCEPT !.returned =
                                read_message_bytes(wire.packet, ZeroedBuffer, build).read]

NextEncode ==
    /\ SendPacket \/ ReadBack
    /\ UNCHANGED <<current_state, login_state, chat_state, state_map, should_quit, panicked,
                   client, bus, last, emitted_ago, idle_typing_frames, logged_out, loop, owed>>

SpecEncode == Init /\ [][NextEncode]_vars

\* The anchor in the packet of a History request: the 8 bytes after the
\* channel id; and a u64 without its most significant bit.
AnchorBytes(packet) == SubSeq(packet, HEADER_LENGTH + 9, HEADER_LENGTH + 16)
Low63(value) == [value EXCEPT ![1] = @ % 32768]

\* C19: a serialized anchor is 8 bytes, its most significant bit 0 for a
\* Timestamp and 1 for a MessageId, the other 63 bits those of the value.
C19_AnchorFlag ==
    (IsSome(wire.payload) /\ Unwrap(wire.payload).type = "History") =>
        LET anchor == Unwrap(wire.payload).anchor
            bytes == AnchorBytes(wire.packet)
        IN  /\ Len(wire.packet) = HEADER_LENGTH + 17
            /\ Len(bytes) = 8
            /\ anchor.kind = "Timestamp" => bytes[1] < 128
            /\ anchor.kind = "MessageId" => bytes[1] >= 128
            /\ Low63(from_be_bytes(bytes)) = Low63(anchor.value)

\* C20: the packet of a payload, read back, gives the payload and a count of
\* 10 and the length of the payload, the length of the packet.
C20_FrameRoundTrip ==
    wire.returned.result # "none" =>
        /\ wire.returned.result = "Ok"
        /\ wire.returned.value = Unwrap(wire.payload)
        /\ wire.returned.len = Len(wire.packet)


(***************************************************************************)
(* A connection that is replaced while its receiving task still runs: the  *)
(* tick asks for a reconnect after RECONNECT_QUIET_SECS without a frame,   *)
(* and the task of the quiet connection meets the end of its stream before *)
(* the Reconnect is handled.                                               *)
(***************************************************************************)
BusRoomStale == 3
EnvsStale == Envs({0, 1}, {AnOrder}, {"ok", "refused"}, {"dns_ok"})
KeysStale == {"Enter", "a"}

HandleBusStale == HandleBus(EnvsStale)
KeyStale == Key(KeysStale, EnvsStale)
TickStale == Tick(TransmitCap)
ReceiveStale == Receive(LoginAccepted \o ChannelReplies \o <<StreamEnd>>, BusRoomStale)

NextStale == HandleBusStale \/ KeyStale \/ TickStale \/ ReceiveStale

SpecStale == Init /\ [][NextStale]_vars

\* The receiving task of the connection the client holds has not failed.
ReceiverAlive == client.write_stream # None /\ client.recv_handle = "running"

\* C21: a Disconnected event handled in Chat mode while the connection the
\* client holds is Connected and its own receiving task still runs (the event
\* is of an earlier connection) leaves the client as it is: the writer held,
\* the receiver running, the status Connected.
C21_StaleDisconnectedIgnored ==
    [][(/\ current_state = "Chat" /\ bus # <<>> /\ Head(bus).type = "Disconnected"
        /\ ReceiverAlive /\ client.connection_status = "Connected"
        /\ chat_state.server_connection_status = "Connected"
        /\ HandleBusStale)
            => client' = client]_vars


\* A Disconnected event is next on the bus in Chat mode.
DisconnectedNext ==
    current_state = "Chat" /\ bus # <<>> /\ Head(bus).type = "Disconnected"

\* Every message of `after` is the message of `before` at its place, a
\* Sending one with the status FailedToSend instead.
SendingFailed(before, after) ==
    /\ DOMAIN after = DOMAIN before
    /\ \A k \in DOMAIN before :
        /\ DOMAIN after[k] = DOMAIN before[k]
        /\ \A i \in DOMAIN before[k] :
            after[k][i] = IF before[k][i].status = "Sending"
                          THEN [before[k][i] EXCEPT !.status = "FailedToSend"]
                          ELSE before[k][i]

\* C22: Disconnected handled in Chat mode with a chat status other than
\* Reconnecting marks every Sending message FailedToSend, empties the
\* pending-ack queue, drops the writer and sets the chat status to
\* Reconnecting; with the chat status Reconnecting it changes neither the
\* chat state nor the client.
C22_DisconnectedHandled ==
    [][(DisconnectedNext /\ HandleBusStale) =>
        IF chat_state.server_connection_status # "Reconnecting"
        THEN /\ SendingFailed(chat_state.chat_history, chat_state'.chat_history)
             /\ chat_state'.waiting_message_acks_id = <<>>
             /\ client'.write_stream = None
             /\ chat_state'.server_connection_status = "Reconnecting"
        ELSE /\ chat_state' = chat_state
             /\ client' = client]_vars

\* C22 happens: a Disconnected has failed a Sending message.
C22_PendingFailed ==
    /\ last.action = "Bus" /\ last.type = "Disconnected" /\ last.mode = "Chat"
    /\ last.acked # {} /\ last.oldest # 0
    /\ client.write_stream = None
    /\ chat_state.server_connection_status = "Reconnecting"

\* A Disconnected was handled with the chat status Reconnecting and a writer held.
DisconnectedWhileReconnecting ==
    /\ last.action = "Bus" /\ last.type = "Disconnected" /\ last.mode = "Chat"
    /\ client.write_stream # None
    /\ chat_state.server_connection_status = "Reconnecting"

(***************************************************************************)
(* The chat screen of a user who types and switches channels while the     *)
(* tick runs: a terminal event may be handled between a tick and the       *)
(* handling of the events the tick sent.                                   *)
(***************************************************************************)
BusRoomChat == 1
EnvsChat == Envs({0}, {AnOrder}, {"ok"}, {"dns_ok"})
KeysChat == {"a", "Up", "Down", "Left"}

HandleBusChat == HandleBus(EnvsChat)
\* The user logs in, and in Chat mode presses Enter everywhere but in the
\* input line: no message is sent.
KeyChat ==
    \/ KeyAt("Login", {"Enter"}, EnvsChat)
    \/ KeyAt("Chat", KeysChat, EnvsChat)
    \/ /\ current_state = "Chat" /\ chat_state.focus.kind # "ChatInput"
       /\ Key({"Enter"}, EnvsChat)
TickChat == Tick(TYPING_EXPIRY_SECS + 1)
ReceiveChat == Receive(LoginAccepted \o ChannelReplies, BusRoomChat)

NextChat == HandleBusChat \/ KeyChat \/ TickChat \/ ReceiveChat

SpecChat == Init /\ [][NextChat]_vars

\* C23: a TypingExpired handled when the local user is not typing, or when
\* the last keystroke is less than TYPING_EXPIRY_SECS old, sends no Typing
\* frame and leaves is_typing as it is.
C23_TypingExpiredRechecked ==
    [][(/\ current_state = "Chat" /\ bus # <<>> /\ Head(bus).type = "TypingExpired"
        /\ ~(chat_state.is_typing /\ chat_state.time_since_last_typing >= TYPING_EXPIRY_SECS)
        /\ HandleBusChat)
            => /\ TypingFrames(last'.out) = 0
               /\ chat_state'.is_typing = chat_state.is_typing]_vars


\* ChannelUp or ChannelDown is the key event handled, in Chat mode.
ChannelSwitch ==
    /\ current_state = "Chat" /\ KeyChat
    /\ last'.action = "Key" /\ last'.type \in {"ChannelUp", "ChannelDown"}

\* C24: when ChannelUp or ChannelDown is handled while is_typing is true, a
\* Typing(false) frame is sent and it carries the id of the channel that was
\* active before the switch.
C24_TypingStoppedInOldChannel ==
    [][(ChannelSwitch /\ chat_state.is_typing /\ IsSome(ActiveChannel(chat_state)))
        => /\ TypingFrames(last'.out) = 1
           /\ \A i \in DOMAIN last'.out :
                IsTypingFrame(last'.out[i]) =>
                    /\ last'.out[i].a = Unwrap(ActiveChannel(chat_state)).id
                    /\ last'.out[i].b = FALSE]_vars


(***************************************************************************)
(* Messages sent to a server that answers every SendMessage it receives,   *)
(* with a Success or a Failed ack, over connections that may end and are   *)
(* dialed again. The main loop takes an update or ticks whenever it can    *)
(* (weak fairness of the bus and tick branches of select!); the server     *)
(* eventually answers while it owes an answer (strong fairness of          *)
(* ServerAnswers: the receiving task may have to wait for room on the bus).*)
(***************************************************************************)
BusRoomSend == 1
EnvsSend == Envs({0}, {AnOrder}, {"ok"}, {"dns_ok"})
KeysSend == {"Enter", "a"}

\* A Failed ack, without an error text.
FailedAcks == <<ServerFrame(2, 1, 0)>>

HandleBusSend == HandleBus(EnvsSend)
KeySend == Key(KeysSend, EnvsSend)
TickSend == Tick(RECONNECT_BACKOFF_SECS + 1)
ReceiveSend == Receive(LoginAccepted \o ChannelReplies \o <<StreamEnd>>, BusRoomSend)
\* The server answers a SendMessage it has received.
ServerAnswers == owed > 0 /\ Receive(SendMessageAcks \o FailedAcks, BusRoomSend)

\* What a step of each branch changes: taking an update shortens the bus, a
\* tick ages the client or sends an event.
BusLength == Len(bus)
Clock == <<client, Len(bus)>>

NextSend == HandleBusSend \/ KeySend \/ TickSend \/ ReceiveSend \/ ServerAnswers

SpecSend ==
    /\ Init /\ [][NextSend]_vars
    /\ WF_BusLength(HandleBusSend) /\ WF_Clock(TickSend)
    /\ SF_owed(ServerAnswers)

\* The temporary ids MessageSend gives out.
LocalIds == ACK_ID_SEED..(ACK_ID_SEED + MaxSends - 1)

\* C25: a message that has the status Sending eventually has another one
\* (Sent or FailedToSend), for as long as the program runs.
C25_SendingEnds ==
    \A id \in LocalIds :
        (id \in SendingLocals(current_state, chat_state)) ~>
            \/ id \notin SendingLocals(current_state, chat_state)
            \/ ~Running


(***************************************************************************)
(* Logging out of the chat screen, with messages pending or while typing,  *)
(* over a connection that may have ended.                                  *)
(***************************************************************************)
BusRoomLogout == 1
EnvsLogout == Envs({0}, {AnOrder}, {"ok"}, {"dns_ok"})
KeysLogout == {"Enter", "a", "Esc", "x"}

HandleBusLogout == HandleBus(EnvsLogout)
KeyLogout == KeyAt("Login", {"Enter"}, EnvsLogout) \/ KeyAt("Chat", KeysLogout, EnvsLogout)
ReceiveLogout == Receive(LoginAccepted \o ChannelReplies \o <<StreamEnd>>, BusRoomLogout)

NextLogout == HandleBusLogout \/ KeyLogout \/ ReceiveLogout

SpecLogout == Init /\ [][NextLogout]_vars

\* Logout is the key event handled, in Chat mode with a Login state cached.
LogoutHandled ==
    /\ current_state = "Chat" /\ IsSome(state_map.Login)
    /\ KeyLogout
    /\ last'.action = "Key" /\ last'.type = "Logout"

\* C26: Logout handled in Chat mode with a Login state in the cache ends with
\* the Login screen current, the writer dropped, and the chat state stored in
\* the cache with every Sending message FailedToSend and the pending-ack
\* queue empty, whatever the connection status and whether or not is_typing
\* is set.
C26_LogoutCompletes ==
    [][LogoutHandled =>
        /\ current_state' = "Login"
        /\ client'.write_stream = None
        /\ \E k \in DOMAIN state_map'.Chat :
            LET cached == state_map'.Chat[k]
            IN  /\ SendingFailed(chat_state.chat_history, cached.chat_history)
                /\ cached.waiting_message_acks_id = <<>>
                /\ cached.channels = chat_state.channels]_vars


\* C27: in Login mode, once the receiving task has met the end of its stream
\* and sent Disconnected, a Login that reaches connect dials.
C27_LoginDialsAgain ==
    [][(/\ current_state = "Login" /\ client.recv_handle = "exited"
        /\ HandleBusConn \/ KeyConn
        /\ LoginConnects)
            => last'.dialed # "no"]_vars


(***************************************************************************)
(* The terminal loses and regains the focus while the tick runs: a         *)
(* FocusGained may be handled between the tick that sent IdleUser and the  *)
(* handling of IdleUser.                                                   *)
(***************************************************************************)
BusRoomIdle == 1
EnvsIdle == Envs({0}, {AnOrder}, {"ok"}, {"dns_ok"})
KeysIdle == {"FocusLost", "FocusGained"}

HandleBusIdle == HandleBus(EnvsIdle)
KeyIdle == KeyAt("Login", {"Enter"}, EnvsIdle) \/ KeyAt("Chat", KeysIdle, EnvsIdle)
TickIdle == \E secs \in {1, IdleCap} : Tick(secs)
ReceiveIdle == Receive(LoginAccepted, BusRoomIdle)

NextIdle == HandleBusIdle \/ KeyIdle \/ TickIdle \/ ReceiveIdle

SpecIdle == Init /\ [][NextIdle]_vars

\* C28: an IdleUser handled right after FocusGained was handled, the terminal
\* being focused, does not make the local user Idle and sends no Status frame.
C28_NoIdleWhileFocused ==
    [][(/\ last.action = "Key" /\ last.type = "FocusGained" /\ last.mode = "Chat"
        /\ current_state = "Chat" /\ bus # <<>> /\ Head(bus).type = "IdleUser"
        /\ HandleBusIdle)
            => /\ chat_state'.current_user.status # "Idle"
               /\ last'.out = <<>>]_vars


\* C29: in Login mode the cursor index of the focused input field is at most
\* the length of that field, and no insertion or deletion has indexed outside
\* a field (String::insert and String::remove panic when they do).
C29_CursorWithinField ==
    /\ ~panicked
    /\ (current_state = "Login" /\ login_state.focus.kind \in InputKinds) =>
            login_state.focus.i <= Len(login_state[InputField(login_state.focus.kind)])


\* C30: in Chat mode active_channel_idx is an index into the channel list
\* whenever the list is not empty; ChannelDown advances it by one and
\* ChannelUp moves it back by one, modulo the channel count; with an empty
\* list both leave it at 0 and end without a fault.
C30_ChannelIndex ==
    [][/\ (current_state' = "Chat" /\ chat_state'.channels # <<>>) =>
            chat_state'.active_channel_idx < Len(chat_state'.channels)
       /\ ChannelSwitch =>
            LET count == Len(chat_state.channels)
                index == chat_state.active_channel_idx
            IN  /\ ~panicked'
                /\ chat_state'.channels = chat_state.channels
                /\ chat_state'.active_channel_idx =
                        CASE count = 0 -> 0
                          [] last'.type = "ChannelDown" -> (index + 1) % count
                          [] OTHER -> (index + count - 1) % count]_vars


\* LoginFail is the update handled, in Login mode.
LoginFailHandled ==
    /\ current_state = "Login" /\ bus # <<>> /\ Head(bus).type = "LoginFail"
    /\ HandleBusConn
    /\ last'.action = "Bus"

\* C31: LoginFail handled in Login mode sets the input status to
\* IncorrectUsernameOrPassword exactly when the reason is "Incorrect username
\* or password." and to FailedToLogin otherwise, keeps the Login screen, and
\* leaves the client with no writer and the status Disconnected: a connect
\* called next dials.
C31_LoginFailHandled ==
    [][LoginFailHandled =>
        /\ login_state'.input_status =
                IF Head(bus).arg = "Incorrect username or password."
                THEN "IncorrectUsernameOrPassword" ELSE "FailedToLogin"
        /\ current_state' = "Login"
        /\ client'.write_stream = None
        /\ client'.connection_status = "Disconnected"
        /\ \A dial \in DialOutcomes :
                connect(client', ServerAddrInfo("Raw", FALSE), dial).dialed = "free"]_vars

\* C31 happens: a login refused for another reason than the credentials was
\* handled while a writer was held.
C31_LoginRefused ==
    /\ current_state = "Login"
    /\ last.action = "Bus" /\ last.type = "LoginFail" /\ last.mode = "Login"
    /\ last.status = "Connected"
    /\ login_state.input_status = "FailedToLogin"
    /\ client.write_stream = None

\* The same, for a login refused for its credentials.
C31_CredentialsRefused ==
    /\ current_state = "Login"
    /\ last.action = "Bus" /\ last.type = "LoginFail" /\ last.mode = "Login"
    /\ login_state.input_status = "IncorrectUsernameOrPassword"
    /\ client.write_stream = None


\* C32: whenever the connect of a Login returns an error, whatever the cause,
\* the Login screen stays and the input status becomes ServerNotFound for a
\* refused connection or an invalid input and UnknownError for every other
\* cause.
C32_DialFailureClassified ==
    [][(/\ current_state = "Login"
        /\ HandleBusConn \/ KeyConn
        /\ last'.type = "Login" /\ last'.err # "none")
            => /\ current_state' = "Login"
               /\ login_state'.input_status =
                        IF last'.err \in {"refused", "invalid_input"}
                        THEN "ServerNotFound" ELSE "UnknownError"]_vars


\* LoginSuccess is the update handled, in Login mode, with no ChatState cached
\* for the user name and server address of the form.
LoginSuccessUncached ==
    /\ current_state = "Login" /\ bus # <<>> /\ Head(bus).type = "LoginSuccess"
    /\ IsSome(login_state.server_address) =>
            ChatKey(login_state.username_input, Unwrap(login_state.server_address))
                \notin DOMAIN state_map.Chat
    /\ HandleBusConn
    /\ last'.action = "Bus"

\* C33: LoginSuccess handled in Login mode with no chat state cached for the
\* user and server switches to Chat mode with a fresh ChatState (no channels,
\* users or history, focus Channels, status Connected, ack counter 100000,
\* no ack pending), writes a ChannelsList request and then a UserStatuses
\* request and nothing else, and stores the Login state in the cache.
C33_FreshSession ==
    [][LoginSuccessUncached =>
        /\ current_state' = "Chat"
        /\ chat_state'.channels = <<>>
        /\ chat_state'.users = <<>>
        /\ chat_state'.chat_history = <<>>
        /\ chat_state'.focus.kind = "Channels"
        /\ chat_state'.server_connection_status = "Connected"
        /\ chat_state'.incrementing_ack_id = ACK_ID_SEED
        /\ chat_state'.waiting_message_acks_id = <<>>
        /\ last'.out = <<Frame("ChannelList", 0, 0), Frame("UserStatuses", 0, 0)>>
        /\ state_map'.Login = Some([login_state EXCEPT !.input_status = "AllFine"])]_vars


\* The local ids handed out in a ChatState: those of its messages.
LocalsOf(chat) ==
    UNION {{chat.chat_history[k][i].local : i \in DOMAIN chat.chat_history[k]} :
           k \in DOMAIN chat.chat_history}

\* C34: every id in the pending-ack queue is at least 100000, the ids in the
\* queue are pairwise distinct, and the ack counter is greater than every
\* local id handed out in the current ChatState, a ChatState restored from
\* the cache after Logout included.
C34_LocalIdsBelowCounter ==
    current_state = "Chat" =>
        LET queue == chat_state.waiting_message_acks_id
        IN  /\ \A i \in DOMAIN queue : queue[i] >= ACK_ID_SEED
            /\ \A i, j \in DOMAIN queue : queue[i] = queue[j] => i = j
            /\ \A id \in SeqRange(queue) \cup LocalsOf(chat_state) :
                    id < chat_state.incrementing_ack_id

\* C34 happens: a message is pending that was sent after a Logout and a
\* login that restored a ChatState in which an id had been handed out.
C34_SentAfterRestore ==
    /\ current_state = "Chat"
    /\ IsSome(logged_out)
    /\ Unwrap(logged_out).incrementing_ack_id = ACK_ID_SEED + 1
    /\ chat_state.waiting_message_acks_id = <<ACK_ID_SEED + 1>>
    /\ ACK_ID_SEED \in LocalsOf(chat_state)


(***************************************************************************)
(* A server that answers each Login frame once, with Success or Failed,    *)
(* and sends no LoginAck otherwise: in Chat mode a LoginFail is the answer *)
(* to the login of a Reconnect.                                            *)
(***************************************************************************)
BusRoomRelogin == 1
EnvsRelogin == Envs({0, 1}, {AnOrder}, {"ok", "refused"}, {"dns_ok"})
KeysRelogin == {"Enter", "x"}

IsLoginFrame(frame) == frame.type = "Login"

HandleBusRelogin == HandleBus(EnvsRelogin)
KeyRelogin == Key(KeysRelogin, EnvsRelogin)
TickRelogin == \E secs \in {RECONNECT_BACKOFF_SECS + 1, TransmitCap} : Tick(secs)
\* The server answers the Login frame the last step wrote.
ServerAnswersLogin ==
    /\ SelectSeq(last.out, IsLoginFrame) # <<>>
    /\ Receive(LoginAccepted \o LoginRefused, BusRoomRelogin)
ReceiveRelogin == Receive(<<StreamEnd, Ping>>, BusRoomRelogin)

NextRelogin ==
    HandleBusRelogin \/ KeyRelogin \/ TickRelogin \/ ServerAnswersLogin \/ ReceiveRelogin

SpecRelogin == Init /\ [][NextRelogin]_vars

\* C35: a LoginFail handled in Chat mode, the answer to the login of a
\* Reconnect, does not leave the chat state Connected.
C35_ReloginRefused ==
    [][(/\ current_state = "Chat" /\ bus # <<>> /\ Head(bus).type = "LoginFail"
        /\ HandleBusRelogin
        /\ last'.action = "Bus")
            => chat_state'.server_connection_status # "Connected"]_vars


\* C36: while the program stays in Chat mode with the status Unhealthy, no
\* step but the handling of Reconnect or Disconnected changes the status of
\* the chat state or of the client: not a frame received, not a frame sent.
C36_UnhealthyUntilReconnect ==
    [][(/\ current_state = "Chat" /\ current_state' = "Chat"
        /\ chat_state.server_connection_status = "Unhealthy"
        /\ last'.type \notin {"Reconnect", "Disconnected"})
            => /\ chat_state'.server_connection_status = "Unhealthy"
               /\ client.connection_status = "Unhealthy"
                    => client'.connection_status = "Unhealthy"]_vars

\* C36 happens: with the status Unhealthy a Ping was received and answered.
C36_TrafficWhileUnhealthy ==
    /\ current_state = "Chat"
    /\ last.action = "Bus" /\ last.type = "HealthCheckRecv" /\ last.ok
    /\ Len(last.out) = 2
    /\ last.status = "Unhealthy"
    /\ client.time_since_last_transmit = 0
    /\ chat_state.server_connection_status = "Unhealthy"
    /\ client.connection_status = "Unhealthy"


\* C37: in Chat mode, whenever the chat state's connection status is
\* Connected the client holds a writer.
C37_ConnectedHoldsWriter ==
    (current_state = "Chat" /\ chat_state.server_connection_status = "Connected")
        => client.write_stream # None


(***************************************************************************)
(* Replying: the user sends messages, selects the first message of the     *)
(* channel, presses Reply and sends again, while the acks come in. The     *)
(* server assigns ids below 100000.                                        *)
(***************************************************************************)
BusRoomReply == 1
EnvsReply == Envs({0}, {AnOrder}, {"ok"}, {"dns_ok"})
KeysReply == {"Enter", "a", "Esc", "s", "r"}

HandleBusReply == HandleBus(EnvsReply)
KeyReply == KeyAt("Login", {"Enter"}, EnvsReply) \/ KeyAt("Chat", KeysReply, EnvsReply)
ReceiveReply ==
    Receive(LoginAccepted \o ChannelReplies \o SubSeq(SendMessageAcks, 1, MaxServerId),
            BusRoomReply)

NextReply == HandleBusReply \/ KeyReply \/ ReceiveReply

SpecReply == Init /\ [][NextReply]_vars

\* The ids of the messages of a ChatState that the server has assigned.
ServerAssigned(chat) ==
    UNION {{chat.chat_history[k][i].message_id :
                i \in {j \in DOMAIN chat.chat_history[k] :
                            chat.chat_history[k][j].status = "Send"}} :
           k \in DOMAIN chat.chat_history}

\* C38: the reply_id of a SendMessage frame written by MessageSend is 0 or
\* the id the server assigned to a message of the history: never the local
\* id of a message that is Sending or FailedToSend, nor the local id a
\* message had before its ack.
C38_ReplyIdFromServer ==
    [][(current_state = "Chat" /\ last'.type = "MessageSend")
        => \A i \in DOMAIN last'.out :
                IsSendMessageFrame(last'.out[i]) =>
                    \/ last'.out[i].b = 0
                    \/ last'.out[i].b \in ServerAssigned(chat_state)]_vars


\* C39: LoginSuccess is never handled in Login mode while the parsed server
\* address of the Login state is unset, so that the handler never panics.
C39_AddressSetAtLoginSuccess ==
    [][(/\ current_state = "Login" /\ bus # <<>> /\ Head(bus).type = "LoginSuccess"
        /\ HandleBusConn
        /\ last'.action = "Bus")
            => /\ IsSome(login_state.server_address)
               /\ ~panicked']_vars


(***************************************************************************)
(* The requests for users and channels, as the handlers of a chat session  *)
(* build them from what the server sent and as send_message writes them.   *)
(***************************************************************************)
MaxIds == 257     \* ids named by one UserStatuses or ChannelsList reply

\* A chat session just logged in, with `known` users in its list.
Session(known) ==
    [Handler("Chat", Nothing, FreshChatState(Username, ServerAddrInfo("Raw", TRUE)),
             [Login |-> Nothing, Chat |-> <<>>], FALSE, Spawned(NewClient))
        EXCEPT !.chat_state.users = [id \in 1..known |-> "Offline"]]

\* Client::request_users, Client::request_channels: the payload of the frame.
RequestOf(frame) ==
    CASE frame.type = "Users" ->
            [type |-> "Users", user_ids |-> [i \in DOMAIN frame.a |-> U64(frame.a[i])]]
      [] frame.type = "Channels" ->
            [type |-> "Channels", channel_ids |-> [i \in DOMAIN frame.a |-> U64(frame.a[i])]]

\* The one request a handler wrote goes out as a packet.
Requested(h) ==
    /\ Len(h.out) = 1
    /\ wire' = [wire EXCEPT !.payload = Some(RequestOf(h.out[1])),
                            !.packet = send_message(RequestOf(h.out[1])),
                            !.returned = [result |-> "none"]]

\* The number of ids the last request asked for.
Asked ==
    IF ~IsSome(wire.payload) THEN 0
    ELSE IF Unwrap(wire.payload).type = "Users" THEN Len(Unwrap(wire.payload).user_ids)
    ELSE Len(Unwrap(wire.payload).channel_ids)

\* UserStatusesUpdate that names one unknown user more than the last request
\* asked for, after the `known` users of the list.
RequestUsers ==
    /\ Asked < MaxIds
    /\ \E known \in 0..1 :
        Requested(Chat_UserStatusesUpdate(Session(known),
                                          [i \in 1..Asked + 1 + known |-> UserStatus(i, "Online")],
                                          Env(0, AnOrder, "ok", "dns_ok")))

\* ChannelIDs with one channel more than the last request asked for.
RequestChannels ==
    /\ Asked < MaxIds
    /\ Requested(Chat_ChannelIDs(Session(0), [i \in 1..Asked + 1 |-> i],
                                 Env(0, AnOrder, "ok", "dns_ok")))

NextCount ==
    /\ RequestUsers \/ RequestChannels
    /\ UNCHANGED <<current_state, login_state, chat_state, state_map, should_quit, panicked,
                   client, bus, last, emitted_ago, idle_typing_frames, logged_out, loop, owed>>

SpecCount == Init /\ [][NextCount]_vars

\* C40: the count prefix of a serialized GetUsers request (1 byte) and of a
\* serialized GetChannels request (2 bytes) is the number of ids that follow
\* it in the payload.
C40_CountPrefix ==
    IsSome(wire.payload) =>
        LET payload == Unwrap(wire.payload)
            body == SubSeq(wire.packet, HEADER_LENGTH + 1, Len(wire.packet))
        IN  /\ payload.type = "Users" =>
                    /\ Len(body) = 1 + 8 * Len(payload.user_ids)
                    /\ body[1] = Len(payload.user_ids)
            /\ payload.type = "Channels" =>
                    /\ Len(body) = 2 + 8 * Len(payload.channel_ids)
                    /\ from_be_bytes(SubSeq(body, 1, 2)) = <<Len(payload.channel_ids)>>

====
